---- MODULE Spec2Model ----
(***************************************************************************)
(* A model of go-restic-wrapper: the output parser (getSummary), the       *)
(* stderr classifier (parseStdErr), the option-to-argument compilers       *)
(* (backupOptions, filterOptions, forgetOptions, restoreOptions and the    *)
(* backup / restore sub-packages) and the snapshot-id validator            *)
(* (isSnapshotID).                                                         *)
(*                                                                         *)
(* Texts are TLA+ strings; TLC evaluates Len, \o and SubSeq on them, so    *)
(* substring search, line splitting and the regular expression work on     *)
(* the characters of the text.                                             *)
(***************************************************************************)
EXTENDS Integers, Sequences, FiniteSets, TLC

VARIABLES
    \* getSummary (src/repo.go:332-362)
    output,           \* the argument: captured stdout text
    scanPos,          \* bufio.Scanner: index of the first unread byte (1-based)
    scanned,          \* number of lines the scanner has handed to the loop
    lastSummaryLine,  \* [set, line]: the local of the same name (set = non-nil)
    sumRet,           \* [data, nil, err]: the returned ([]byte, error)
    pcSummary,        \* "scan" | "done"
    \* parseStdErr (src/repo.go:299-315)
    stdErr,           \* the argument: captured stderr text
    errRet,           \* [sentinel, msg]: the returned error
    pcStdErr,         \* "call" | "done"
    \* option records and their args() (src/filter/filter.go, src/restore/restore.go,
    \* src/unnamed/part_000)
    family,           \* which option record this run builds
    opts,             \* the option record
    applied,          \* the setters applied so far, in call order: <<[fn, vals]>>
    argv,             \* the result of args()
    pcArgs,           \* "build" | "compiled"
    \* isSnapshotID (src/repo.go:152-154, 328-330)
    id,               \* the argument
    idRet,            \* the returned bool
    pcID,             \* "call" | "done"
    \* the readiness check (src/restic.go:17-69)
    resticCheckOnce,  \* sync.Once: [done, m], m the caller holding the mutex (0: free)
    resticCheckErr,   \* the package variable of the same name
    env,              \* what the process finds: [bin, runErr, out]
    bodyRuns,         \* how many times the function given to Do has been entered
    pcCaller,         \* caller -> its position in checkResticVersion
    callerRet,        \* caller -> what checkResticVersion returned to it
    \* one call of a public operation (src/repo.go:39-296)
    op,               \* the operation called
    path,             \* Backup: the source path
    target,           \* Restore: the target path
    snapshotID,       \* Restore, SnapshotById: the identifier
    options,          \* the option functions passed, in order: <<[fn, field, how, arg]>>
    ctx,              \* the context: "live" | "canceled" | "deadline"
    dirs,             \* the directories that exist
    pcOp,             \* "call" | "command" | "start" | "running" | "done"
    cmdArgs,          \* the arguments the operation hands to command
    launched,         \* the subprocesses started during the call, as argument vectors
    cmdStdOut,        \* the buffer stdOut of command
    cmdStdErr,        \* the buffer stdErr of command
    writes,           \* the writes the subprocess has made: <<[stream, n, err]>>
    cmdRun,           \* how cmd.Run ended: "" (not called) | "not started" | "exit 0" | "failed"
    opRet,            \* [result, err]: what the operation returned
    \* the identifier type (src/snapshots.go:57-116)
    idText,           \* the argument of ParseID
    parsedID,         \* [id, err]: what ParseID returned, id a sequence of idSize bytes
    idString,         \* what id.String() returned
    idJSON,           \* what id.MarshalJSON() returned
    unmarshaledID,    \* [id, err]: the receiver after UnmarshalJSON, and its error
    pcParseID,        \* "call" | "parsed" | "string" | "marshaled" | "done"
    \* a caller's sequence of Open, Init and Validate (src/repo.go:19-65, 257-296)
    stores,           \* location -> the password of the repository it holds, or NoRepo
    handle,           \* the *Repository the caller holds: [path, password], or NoHandle
    repoCall,         \* the call in progress: [op, r], r the receiver
    pcRepo,           \* "idle" | "command" | "run" | "wait"
    toolRuns,         \* the subprocesses started: <<[argv, env, ok]>>
    toolExit,         \* [ok, stdErr]: how the last subprocess ended
    repoRet           \* [handle, err]: what the last call returned

summaryVars == <<output, scanPos, scanned, lastSummaryLine, sumRet, pcSummary>>
stdErrVars == <<stdErr, errRet, pcStdErr>>
argsVars == <<family, opts, applied, argv, pcArgs>>
idVars == <<id, idRet, pcID>>
onceVars == <<resticCheckOnce, resticCheckErr, env, bodyRuns, pcCaller, callerRet>>
opsVars == <<op, path, target, snapshotID, options, ctx, dirs, pcOp, cmdArgs, launched,
             cmdStdOut, cmdStdErr, writes, cmdRun, opRet>>
parseIDVars == <<idText, parsedID, idString, idJSON, unmarshaledID, pcParseID>>
repoVars == <<stores, handle, repoCall, pcRepo, toolRuns, toolExit, repoRet>>
vars == <<summaryVars, stdErrVars, argsVars, idVars, onceVars, opsVars, parseIDVars, repoVars>>

----------------------------------------------------------------------------
(* Bounds of the model. *)

\* the captured stdout has at most this many lines
MaxLines == 3

----------------------------------------------------------------------------
(* Strings. *)

Char(s, i) == SubSeq(s, i, i)

\* strings.Contains(s, sub)
Contains(s, sub) ==
    \E i \in 1..(Len(s) - Len(sub) + 1) : SubSeq(s, i, i + Len(sub) - 1) = sub

\* index of the first occurrence of the one-character string c at or after
\* from, 0 when there is none (bytes.IndexByte)
IndexFrom(s, c, from) ==
    LET I == {i \in from..Len(s) : Char(s, i) = c}
    IN  IF I = {} THEN 0 ELSE CHOOSE i \in I : \A j \in I : i <= j

UpperLetters == "ABCDEFGHIJKLMNOPQRSTUVWXYZ"
LowerLetters == "abcdefghijklmnopqrstuvwxyz"

\* unicode.ToLower on one ASCII character
LowerChar(c) ==
    LET i == IndexFrom(UpperLetters, c, 1)
    IN  IF i = 0 THEN c ELSE Char(LowerLetters, i)

RECURSIVE ToLower(_)
ToLower(s) == IF s = "" THEN "" ELSE LowerChar(Char(s, 1)) \o ToLower(Tail(s))

SeqsUpTo(S, n) == UNION {[1..k -> S] : k \in 0..n}

----------------------------------------------------------------------------
(* encoding/json, as getSummary uses it: json.Unmarshal(line, &msg) with   *)
(* msg a struct of one string field tagged "message_type".  The scanner    *)
(* covers objects, arrays, strings without escapes, numbers and the three  *)
(* literals, decoded one token at a time.                                  *)

\* bufio.MaxScanTokenSize, the scanner's default buffer limit
MaxScanTokenSize == 65536

\* One character that stands for a run of MaxScanTokenSize space bytes
\* (run-length encoded so that a state does not carry 64 KiB of text).
PadChar == "~"

JSONSpace == {" ", "\t", PadChar}
NumChars == {"0", "1", "2", "3", "4", "5", "6", "7", "8", "9", "-", "."}

Min(S) == CHOOSE x \in S : \A y \in S : x <= y

\* the index of the first character at or after i that is not white space
SkipSpace(s, i) ==
    LET J == {j \in i..Len(s) : Char(s, j) \notin JSONSpace}
    IN  IF J = {} THEN Len(s) + 1 ELSE Min(J)

\* the index after the number that starts at i
NumberEnd(s, i) ==
    LET J == {j \in i..Len(s) : Char(s, j) \notin NumChars}
    IN  IF J = {} THEN Len(s) + 1 ELSE Min(J)

\* the literal (null, true, false) that starts at i, "" when none does
LiteralAt(s, i) ==
    LET L == {l \in {"null", "true", "false"} :
                 /\ i + Len(l) - 1 <= Len(s)
                 /\ SubSeq(s, i, i + Len(l) - 1) = l}
    IN  IF L = {} THEN "" ELSE CHOOSE l \in L : TRUE

\* The decoder's state: i the next character; stack the open "{" and "[";
\* mode what it expects ("value", "key0" a key or "}", "key", "colon", "elem0"
\* a value or "]", "after" a "," or a closing bracket, "end", "fail"); top the
\* kind of the top-level value; want whether the value now decoded is the one
\* of the struct's field; MessageType and typeErr the result so far; elems the
\* number of elements of a top-level array read so far, firstNull whether the
\* first of them is null, elemErr whether one of them is neither an object
\* nor null.
DecodeStart ==
    [i |-> 1, stack |-> <<>>, mode |-> "value", top |-> "", want |-> FALSE,
     MessageType |-> "", typeErr |-> FALSE, elems |-> 0, firstNull |-> FALSE,
     elemErr |-> FALSE]

\* One token decoded.  A key matches the field when it equals "message_type"
\* ignoring case and belongs to the top-level object; a string value is stored,
\* null leaves the field alone, any other value is an UnmarshalTypeError
\* (decoding goes on and the error is returned at the end).  A later member
\* overwrites an earlier one.
DecodeStep(s, st) ==
    LET i == SkipSpace(s, st.i)
        c == IF i <= Len(s) THEN Char(s, i) ELSE ""
        depth == Len(st.stack)
        tops == IF depth = 0 THEN "" ELSE st.stack[depth]
        mine == st.want /\ depth = 1
        elem == depth = 1 /\ st.top = "array"
        n == IF elem THEN st.elems + 1 ELSE st.elems
        q == IF c = "\"" THEN IndexFrom(s, "\"", i + 1) ELSE 0
        lit == LiteralAt(s, i)
        fail == [st EXCEPT !.mode = "fail"]
        kind(k) == IF depth = 0 THEN k ELSE st.top
        closed == [st EXCEPT !.i = i + 1, !.stack = SubSeq(st.stack, 1, depth - 1),
                             !.mode = "after", !.want = FALSE]
    IN  CASE st.mode = "key0" /\ c = "}" -> closed
          [] st.mode = "elem0" /\ c = "]" -> closed
          [] st.mode \in {"key0", "key"} ->
               IF q = 0 THEN fail
               ELSE [st EXCEPT !.i = q + 1, !.mode = "colon",
                               !.want = (depth = 1
                                         /\ ToLower(SubSeq(s, i + 1, q - 1)) = "message_type")]
          [] st.mode = "colon" ->
               IF c = ":" THEN [st EXCEPT !.i = i + 1, !.mode = "value"] ELSE fail
          [] st.mode \in {"value", "elem0"} ->
               IF c = "{"
               THEN [st EXCEPT !.i = i + 1, !.stack = Append(@, "{"), !.mode = "key0",
                               !.top = kind("object"), !.typeErr = @ \/ mine,
                               !.elems = n]
               ELSE IF c = "["
               THEN [st EXCEPT !.i = i + 1, !.stack = Append(@, "["), !.mode = "elem0",
                               !.top = kind("array"), !.typeErr = @ \/ mine,
                               !.elems = n, !.elemErr = @ \/ elem]
               ELSE IF c = "\""
               THEN IF q = 0 THEN fail
                    ELSE [st EXCEPT !.i = q + 1, !.mode = "after", !.top = kind("string"),
                                    !.MessageType = IF mine THEN SubSeq(s, i + 1, q - 1) ELSE @,
                                    !.elems = n, !.elemErr = @ \/ elem]
               ELSE IF c \in NumChars
               THEN [st EXCEPT !.i = NumberEnd(s, i), !.mode = "after",
                               !.top = kind("number"), !.typeErr = @ \/ mine,
                               !.elems = n, !.elemErr = @ \/ elem]
               ELSE IF lit # ""
               THEN [st EXCEPT !.i = i + Len(lit), !.mode = "after",
                               !.top = kind(IF lit = "null" THEN "null" ELSE "bool"),
                               !.typeErr = @ \/ (mine /\ lit # "null"),
                               !.elems = n, !.elemErr = @ \/ (elem /\ lit # "null"),
                               !.firstNull = @ \/ (elem /\ st.elems = 0 /\ lit = "null")]
               ELSE fail
          [] st.mode = "after" ->
               IF depth = 0
               THEN IF i > Len(s) THEN [st EXCEPT !.mode = "end"] ELSE fail
               ELSE IF c = ","
               THEN [st EXCEPT !.i = i + 1, !.want = FALSE,
                               !.mode = IF tops = "{" THEN "key" ELSE "value"]
               ELSE IF (tops = "{" /\ c = "}") \/ (tops = "[" /\ c = "]") THEN closed
               ELSE fail

RECURSIVE Decode(_, _)
Decode(s, st) ==
    IF st.mode \in {"end", "fail"} THEN st ELSE Decode(s, DecodeStep(s, st))

\* json.Unmarshal(line, &msg): [err, MessageType], err = "" for nil
Unmarshal(line) ==
    LET st == Decode(line, DecodeStart)
    IN  IF st.mode = "fail" THEN [err |-> "syntax error", MessageType |-> ""]
        ELSE IF st.top = "object"
        THEN [err |-> IF st.typeErr THEN "cannot unmarshal" ELSE "",
              MessageType |-> st.MessageType]
        ELSE IF st.top = "null" THEN [err |-> "", MessageType |-> ""]
        ELSE [err |-> "cannot unmarshal", MessageType |-> ""]

----------------------------------------------------------------------------
(* bufio.Scanner over strings.NewReader(output) with the default split     *)
(* function (bufio.ScanLines) and the default buffer limit.                *)

\* the number of bytes a text stands for
ByteLen(s) ==
    Len(s) + (MaxScanTokenSize - 1) * Cardinality({i \in 1..Len(s) : Char(s, i) = PadChar})

\* dropCR of bufio.ScanLines: one trailing "\r" is not part of the line
dropCR(s) ==
    IF Len(s) > 0 /\ Char(s, Len(s)) = "\r" THEN SubSeq(s, 1, Len(s) - 1) ELSE s

\* bufio.ScanLines at position from of s: the raw token up to the next "\n"
\* (or to the end of the text) and the position after it
ScanLines(s, from) ==
    LET nl == IndexFrom(s, "\n", from)
    IN  IF nl = 0 THEN [raw |-> SubSeq(s, from, Len(s)), next |-> Len(s) + 1]
        ELSE [raw |-> SubSeq(s, from, nl - 1), next |-> nl + 1]

\* scanner.Scan() at position from: ok with the line and the next position;
\* or not ok at the end of the text (err = ""); or not ok with ErrTooLong when
\* the buffer fills up before the line ends.
Scan(s, from) ==
    IF from > Len(s)
    THEN [ok |-> FALSE, err |-> "", line |-> "", next |-> from]
    ELSE LET t == ScanLines(s, from)
         IN  IF ByteLen(t.raw) >= MaxScanTokenSize
             THEN [ok |-> FALSE, err |-> "bufio.Scanner: token too long",
                   line |-> "", next |-> from]
             ELSE [ok |-> TRUE, err |-> "", line |-> dropCR(t.raw), next |-> t.next]

----------------------------------------------------------------------------
(* getSummary (src/repo.go:332-362) *)

TagsMarker == "\"tags\":"

\* `err == nil && msg.MessageType == "summary"` (repo.go:342-343)
isSummaryMsg(line) ==
    LET msg == Unmarshal(line) IN msg.err = "" /\ msg.MessageType = "summary"

\* `strings.Contains(string(line), "\"tags\":")` (repo.go:348)
hasTags(line) == Contains(line, TagsMarker)

NilLine == [set |-> FALSE, line |-> ""]

\* A plausible slip: a summary line is remembered like a tags line instead of
\* being returned at once
getSummaryLine_NoEarlyReturn(line, last) ==
    [return |-> FALSE,
     last |-> IF isSummaryMsg(line) \/ hasTags(line)
              THEN [set |-> TRUE, line |-> line] ELSE last]

\* A plausible slip: the first tags line is kept, later ones are ignored
getSummaryLine_FirstTags(line, last) ==
    IF isSummaryMsg(line)
    THEN [return |-> TRUE, last |-> last]
    ELSE [return |-> FALSE,
          last |-> IF hasTags(line) /\ ~last.set
                   THEN [set |-> TRUE, line |-> line] ELSE last]

\* The body of the scan loop for one line (repo.go:337-350): whether it
\* returns, and the new lastSummaryLine.
getSummaryLine(line, last) ==
    IF isSummaryMsg(line)
    THEN [return |-> TRUE, last |-> last]
    ELSE [return |-> FALSE,
          last |-> IF hasTags(line) THEN [set |-> TRUE, line |-> line] ELSE last]

\* A plausible slip: the final error forgotten, (nil, nil) returned
getSummaryEnd_NoError(scanErr, last) ==
    IF scanErr # ""
    THEN [data |-> "", nil |-> TRUE, err |-> "failed to read output: " \o scanErr]
    ELSE [data |-> last.line, nil |-> ~last.set, err |-> ""]

\* A plausible slip: the fallback line looked at before the scanner's error
getSummaryEnd_FallbackFirst(scanErr, last) ==
    IF last.set
    THEN [data |-> last.line, nil |-> FALSE, err |-> ""]
    ELSE IF scanErr # ""
    THEN [data |-> "", nil |-> TRUE, err |-> "failed to read output: " \o scanErr]
    ELSE [data |-> "", nil |-> TRUE, err |-> "no summary found in output"]

\* After the loop (repo.go:353-361), with the scanner's error
getSummaryEnd(scanErr, last) ==
    IF scanErr # ""
    THEN [data |-> "", nil |-> TRUE, err |-> "failed to read output: " \o scanErr]
    ELSE IF last.set
    THEN [data |-> last.line, nil |-> FALSE, err |-> ""]
    ELSE [data |-> "", nil |-> TRUE, err |-> "no summary found in output"]

NoReturn == [data |-> "", nil |-> TRUE, err |-> "(running)"]

\* Lines the wrapped tool prints, and lines that are none of them
SampleLines ==
    { "{\"message_type\":\"status\",\"percent_done\":0.5}",
      "{\"message_type\":\"summary\",\"files_new\":10}",
      "{\"message_type\":\"summary\",\"tags\":[\"a\"]}",
      "{\"tags\":[\"daily\"],\"host\":\"myhost\"}",
      "[{\"tags\":null,\"host\":\"h\",\"keep\":[]}]",
      "\"message_type\":\"summary\"",
      "",
      "{\"message_type\":\"status\"}" \o PadChar,
      "{\"message_type\":\"summary\"}" \o PadChar }

RECURSIVE Join(_, _)
Join(ls, end) ==
    IF ls = <<>> THEN ""
    ELSE IF Len(ls) = 1 THEN ls[1]
    ELSE ls[1] \o end \o Join(Tail(ls), end)

InitSummaryVars ==
    /\ \E ls \in SeqsUpTo(SampleLines, MaxLines), last \in {"", "\n"} :
           output = Join(ls, "\n") \o last
    /\ scanPos = 1
    /\ scanned = 0
    /\ lastSummaryLine = NilLine
    /\ sumRet = NoReturn
    /\ pcSummary = "scan"

IdleSummaryVars ==
    /\ output = ""
    /\ scanPos = 1
    /\ scanned = 0
    /\ lastSummaryLine = NilLine
    /\ sumRet = NoReturn
    /\ pcSummary = "idle"

\* One iteration of `for scanner.Scan() { ... }`
getSummaryScan ==
    /\ pcSummary = "scan"
    /\ LET t == Scan(output, scanPos)
           r == getSummaryLine(t.line, lastSummaryLine)
       IN  /\ t.ok
           /\ scanPos' = t.next
           /\ scanned' = scanned + 1
           /\ lastSummaryLine' = r.last
           /\ IF r.return
              THEN /\ sumRet' = [data |-> t.line, nil |-> FALSE, err |-> ""]
                   /\ pcSummary' = "done"
              ELSE UNCHANGED <<sumRet, pcSummary>>
    /\ UNCHANGED <<output, stdErrVars, argsVars, idVars, parseIDVars, repoVars, onceVars, opsVars>>

\* scanner.Scan() returned false: the statements after the loop
getSummaryReturn ==
    /\ pcSummary = "scan"
    /\ LET t == Scan(output, scanPos)
       IN  /\ ~t.ok
           /\ sumRet' = getSummaryEnd(t.err, lastSummaryLine)
    /\ pcSummary' = "done"
    /\ UNCHANGED <<output, scanPos, scanned, lastSummaryLine, stdErrVars, argsVars, idVars, parseIDVars, repoVars, onceVars, opsVars>>

----------------------------------------------------------------------------
(* Sentinel errors (src/errors.go) and parseStdErr (src/repo.go:299-315).  *)
(* An error is [sentinel, msg]: sentinel names the package variable the    *)
(* error is (errors.Is compares identity), "" for an error made on the     *)
(* spot; msg is its Error() text.                                          *)

ErrRepoExists == [sentinel |-> "ErrRepoExists", msg |-> "repository already exists"]
ErrRepoNotFound == [sentinel |-> "ErrRepoNotFound", msg |-> "repository not found"]
ErrInvalidPassword == [sentinel |-> "ErrInvalidPassword", msg |-> "invalid repository password"]
ErrInvalidID == [sentinel |-> "ErrInvalidID", msg |-> "invalid snapshot ID"]
ErrRepoLocked == [sentinel |-> "ErrRepoLocked", msg |-> "repository locked by another process"]
ErrResticNotFound == [sentinel |-> "ErrResticNotFound", msg |-> "restic binary not found in PATH"]
ErrResticVersion ==
    [sentinel |-> "ErrResticVersion", msg |-> "restic version does not meet minimum requirements"]

Sentinels ==
    {ErrRepoExists, ErrRepoNotFound, ErrInvalidPassword, ErrInvalidID, ErrRepoLocked,
     ErrResticNotFound, ErrResticVersion}

\* errors.New / fmt.Errorf without %w
NewError(text) == [sentinel |-> "", msg |-> text]

NoError == [sentinel |-> "", msg |-> "(running)"]

\* A plausible slip: the locked case tested before the password case
parseStdErr_LockedFirst(s) ==
    IF Contains(s, "config file already exists") THEN ErrRepoExists
    ELSE IF Contains(s, "unable to create lock in backend")
            \/ Contains(s, "repository is already locked") THEN ErrRepoLocked
    ELSE IF Contains(s, "wrong password") \/ Contains(s, "invalid password")
    THEN ErrInvalidPassword
    ELSE IF Contains(s, "Is there a repository at the following location?")
    THEN ErrRepoNotFound
    ELSE IF Contains(s, "returned error, retrying after") THEN ErrInvalidID
    ELSE NewError("restic command failed: " \o s)

\* A plausible slip: the last case made the default
parseStdErr_NoDefault(s) ==
    IF Contains(s, "config file already exists") THEN ErrRepoExists
    ELSE IF Contains(s, "wrong password") \/ Contains(s, "invalid password")
    THEN ErrInvalidPassword
    ELSE IF Contains(s, "Is there a repository at the following location?")
    THEN ErrRepoNotFound
    ELSE IF Contains(s, "unable to create lock in backend")
            \/ Contains(s, "repository is already locked") THEN ErrRepoLocked
    ELSE ErrInvalidID

\* The switch of repo.go:300-314: the cases are tried top to bottom
parseStdErr(s) ==
    IF Contains(s, "config file already exists") THEN ErrRepoExists
    ELSE IF Contains(s, "wrong password") \/ Contains(s, "invalid password")
    THEN ErrInvalidPassword
    ELSE IF Contains(s, "Is there a repository at the following location?")
    THEN ErrRepoNotFound
    ELSE IF Contains(s, "unable to create lock in backend")
            \/ Contains(s, "repository is already locked") THEN ErrRepoLocked
    ELSE IF Contains(s, "returned error, retrying after") THEN ErrInvalidID
    ELSE NewError("restic command failed: " \o s)

\* the stderr text is made of at most this many fragments
MaxFragments == 2

StdErrFragments ==
    { "config file already exists",
      "wrong password",
      "invalid password",
      "Is there a repository at the following location?",
      "unable to create lock in backend",
      "repository is already locked",
      "returned error, retrying after",
      "Config file already exists",
      "WRONG PASSWORD",
      "Invalid Password",
      "is there a repository at the following location?",
      "Unable to create lock in backend",
      "Repository is already locked",
      "Returned Error, Retrying After",
      "Fatal: ",
      " or no key found\n",
      "config file already",
      "exit status 1" }

RECURSIVE Concat(_)
Concat(ss) == IF ss = <<>> THEN "" ELSE ss[1] \o Concat(Tail(ss))

InitStdErrVars ==
    /\ \E fs \in SeqsUpTo(StdErrFragments, MaxFragments) : stdErr = Concat(fs)
    /\ errRet = NoError
    /\ pcStdErr = "call"

IdleStdErrVars ==
    /\ stdErr = ""
    /\ errRet = NoError
    /\ pcStdErr = "idle"

ParseStdErr ==
    /\ pcStdErr = "call"
    /\ errRet' = parseStdErr(stdErr)
    /\ pcStdErr' = "done"
    /\ UNCHANGED <<stdErr, summaryVars, argsVars, idVars, parseIDVars, repoVars, onceVars, opsVars>>

----------------------------------------------------------------------------
\* isSnapshotID (src/repo.go:328-330) and idRegex (src/repo.go:152-154), three
\* alternatives anchored at both ends: the literal latest, 8 characters of
\* [0-9a-f], 64 characters of [0-9a-f], each with an optional ":" and any
\* characters after it.  The expression is compiled without flags: "." matches
\* any character but "\n", and "$" matches at the end of the text only.

\* the repetition counts {8} and {64} of idRegex
ShortIDLen == 8
FullIDLen == 64

HexDigits == {"0", "1", "2", "3", "4", "5", "6", "7", "8", "9", "a", "b", "c", "d", "e", "f"}

\* the optional group and the end anchor, on the rest of the text
matchSuffix(rest) ==
    \/ rest = ""
    \/ /\ Char(rest, 1) = ":"
       /\ \A i \in 2..Len(rest) : Char(rest, i) # "\n"

\* the alternative of the literal latest
matchLatest(s) ==
    /\ Len(s) >= Len("latest")
    /\ SubSeq(s, 1, Len("latest")) = "latest"
    /\ matchSuffix(SubSeq(s, Len("latest") + 1, Len(s)))

\* the alternative of n characters of [0-9a-f]
matchHex(s, n) ==
    /\ Len(s) >= n
    /\ \A i \in 1..n : Char(s, i) \in HexDigits
    /\ matchSuffix(SubSeq(s, n + 1, Len(s)))

isSnapshotID(s) == matchLatest(s) \/ matchHex(s, ShortIDLen) \/ matchHex(s, FullIDLen)

\* identifiers are built from a unit repeated up to this many times
MaxRepeat == 66

RECURSIVE Repeat(_, _)
Repeat(u, k) == IF k = 0 THEN "" ELSE u \o Repeat(u, k - 1)

IdBodies ==
    { "latest", "Latest", "lates", "latestx", "a1b2c3d4", "abc123", "a1b2c3d4e",
      "g1h2i3j4", "A1B2C3D4", "a1b2c3dg",
      "0123456789abcdef0123456789abcdef0123456789abcdef0123456789abcdef",
      "0123456789abcdef0123456789abcdef0123456789abcdef0123456789abcdeF" }
    \cup {Repeat(u, k) : u \in {"a", "0", "f", "9", "A", "g"}, k \in 0..MaxRepeat}

IdSuffixes == {"", ":", ":/data", ":/etc/a b", ":/a\nb", "\n", "/x", ":\n"}

InitIDVars ==
    /\ \E b \in IdBodies, x \in IdSuffixes : id = b \o x
    /\ idRet = FALSE
    /\ pcID = "call"

IdleIDVars ==
    /\ id = ""
    /\ idRet = FALSE
    /\ pcID = "idle"

IsSnapshotID ==
    /\ pcID = "call"
    /\ idRet' = isSnapshotID(id)
    /\ pcID' = "done"
    /\ UNCHANGED <<id, parseIDVars, repoVars, summaryVars, stdErrVars, argsVars, onceVars, opsVars>>

----------------------------------------------------------------------------
(* Option records and their args() methods.  One record shape carries the  *)
(* fields of all of them; a family uses the fields its Go struct has.      *)
(*   backup, filter, forget, restore : package restic (src/filter/filter.go *)
(*                                     lines 160-439)                       *)
(*   filterPkg, forgetPkg            : packages filter and forget           *)
(*                                     (src/filter/filter.go lines 1-158)   *)
(*   restorePkg                      : package restore                      *)
(*   backupPkg                       : package backup (src/unnamed/part_000)*)

\* at most this many option functions are applied to one record
MaxCalls == 3

Families ==
    {"backup", "filter", "forget", "restore", "filterPkg", "forgetPkg", "restorePkg", "backupPkg"}

\* `var opts backupOptions` and the like: the zero value
ZeroOptions ==
    [host |-> "", path |-> "", id |-> "", hosts |-> <<>>, paths |-> <<>>, tags |-> <<>>,
     exclude |-> <<>>, include |-> <<>>, latest |-> 0, keepLast |-> 0, prune |-> FALSE]

\* The option functions of each family: the Go name, the field it writes and
\* how: "append" (append(opts.f, vals...)), "set" (opts.f = v), "true" (opts.f = true)
Setters(fam) ==
    CASE fam = "backup" ->
           { [fn |-> "WithHost", field |-> "host", how |-> "set"],
             [fn |-> "WithTags", field |-> "tags", how |-> "append"],
             [fn |-> "WithExclude", field |-> "exclude", how |-> "append"],
             [fn |-> "WithInclude", field |-> "include", how |-> "append"] }
      [] fam = "filter" ->
           { [fn |-> "FilterByHost", field |-> "hosts", how |-> "append"],
             [fn |-> "FilterByPath", field |-> "paths", how |-> "append"],
             [fn |-> "FilterByTag", field |-> "tags", how |-> "append"],
             [fn |-> "FilterLatest", field |-> "latest", how |-> "set"] }
      [] fam = "forget" ->
           { [fn |-> "ForgetSnapshot", field |-> "id", how |-> "set"],
             [fn |-> "ForgetWithPrune", field |-> "prune", how |-> "true"],
             [fn |-> "ForgetByHost", field |-> "hosts", how |-> "append"],
             [fn |-> "ForgetByPath", field |-> "paths", how |-> "append"],
             [fn |-> "ForgetByTag", field |-> "tags", how |-> "append"],
             [fn |-> "ForgetKeepLast", field |-> "keepLast", how |-> "set"] }
      [] fam = "restore" ->
           { [fn |-> "RestoreByHost", field |-> "hosts", how |-> "append"],
             [fn |-> "RestoreByPath", field |-> "paths", how |-> "append"],
             [fn |-> "RestoreByTag", field |-> "tags", how |-> "append"],
             [fn |-> "RestoreExclude", field |-> "exclude", how |-> "append"],
             [fn |-> "RestoreInclude", field |-> "include", how |-> "append"] }
      [] fam = "filterPkg" ->
           { [fn |-> "WithTags", field |-> "tags", how |-> "append"],
             [fn |-> "WithHosts", field |-> "hosts", how |-> "append"],
             [fn |-> "WithPaths", field |-> "paths", how |-> "append"],
             [fn |-> "WithLatest", field |-> "latest", how |-> "set"] }
      [] fam = "forgetPkg" ->
           { [fn |-> "WithSnapshotID", field |-> "id", how |-> "set"],
             [fn |-> "WithPrune", field |-> "prune", how |-> "true"],
             [fn |-> "WithTags", field |-> "tags", how |-> "append"],
             [fn |-> "WithHosts", field |-> "hosts", how |-> "append"],
             [fn |-> "WithPaths", field |-> "paths", how |-> "append"],
             [fn |-> "WithKeepLast", field |-> "keepLast", how |-> "set"] }
      [] fam = "restorePkg" ->
           { [fn |-> "WithTags", field |-> "tags", how |-> "append"],
             [fn |-> "WithIncludes", field |-> "include", how |-> "append"],
             [fn |-> "WithExcludes", field |-> "exclude", how |-> "append"],
             [fn |-> "WithHosts", field |-> "hosts", how |-> "append"],
             [fn |-> "WithPaths", field |-> "paths", how |-> "append"] }
      [] fam = "backupPkg" ->
           { [fn |-> "WithTags", field |-> "tags", how |-> "append"],
             [fn |-> "WithIncludes", field |-> "include", how |-> "append"],
             [fn |-> "WithExcludes", field |-> "exclude", how |-> "append"],
             [fn |-> "WithHost", field |-> "host", how |-> "set"],
             [fn |-> "WithPath", field |-> "path", how |-> "set"] }

\* The arguments an option function is called with
ListArgs == {<<"a">>, <<"", "--tag">>}
StringArgs == {"", "latest", "--prune"}
UintArgs == {0, 2}

ArgsFor(st) ==
    CASE st.how = "append" -> ListArgs
      [] st.how = "true" -> {TRUE}
      [] st.field \in {"latest", "keepLast"} -> UintArgs
      [] OTHER -> StringArgs

\* A plausible slip: the new values put in front of the old ones
ApplyOption_Prepend(o, st, v) ==
    CASE st.how = "append" -> [o EXCEPT ![st.field] = v \o @]
      [] st.how = "set" -> [o EXCEPT ![st.field] = v]
      [] st.how = "true" -> [o EXCEPT ![st.field] = TRUE]

\* opt(&opts): the effect of one option function on the record
ApplyOption(o, st, v) ==
    CASE st.how = "append" -> [o EXCEPT ![st.field] = @ \o v]
      [] st.how = "set" -> [o EXCEPT ![st.field] = v]
      [] st.how = "true" -> [o EXCEPT ![st.field] = TRUE]

\* fmt.Sprintf("%d", n)
Sprintf_d(n) == ToString(n)

\* A plausible slip: an empty value is not appended
FlagPairs_SkipEmpty(flag, vals) ==
    LET F[i \in 0..Len(vals)] ==
            IF i = 0 THEN <<>>
            ELSE IF vals[i] = "" THEN F[i - 1] \o <<flag>>
            ELSE F[i - 1] \o <<flag, vals[i]>>
    IN  F[Len(vals)]

\* `for _, v := range vals { args = append(args, flag, v) }`
FlagPairs(flag, vals) ==
    LET F[i \in 0..Len(vals)] ==
            IF i = 0 THEN <<>> ELSE F[i - 1] \o <<flag, vals[i]>>
    IN  F[Len(vals)]

\* A plausible slip: the exclude loop placed before the tag loop
backupOptions_args_ExcludeFirst(o) ==
    (IF o.host # "" THEN <<"--host", o.host>> ELSE <<>>)
    \o FlagPairs("--exclude", o.exclude)
    \o FlagPairs("--tag", o.tags)
    \o FlagPairs("--include", o.include)

\* backupOptions.args (src/filter/filter.go:202-222)
backupOptions_args(o) ==
    (IF o.host # "" THEN <<"--host", o.host>> ELSE <<>>)
    \o FlagPairs("--tag", o.tags)
    \o FlagPairs("--exclude", o.exclude)
    \o FlagPairs("--include", o.include)

\* filterOptions.args (src/filter/filter.go:262-282)
filterOptions_args(o) ==
    FlagPairs("--host", o.hosts)
    \o FlagPairs("--path", o.paths)
    \o FlagPairs("--tag", o.tags)
    \o (IF o.latest > 0 THEN <<"--latest", Sprintf_d(o.latest)>> ELSE <<>>)

\* A plausible slip: the snapshot id appended after the filters
forgetOptions_args_IdLate(o) ==
    FlagPairs("--host", o.hosts)
    \o FlagPairs("--path", o.paths)
    \o FlagPairs("--tag", o.tags)
    \o (IF o.id # "" THEN <<o.id>> ELSE <<>>)
    \o (IF o.keepLast > 0 THEN <<"--keep-last", Sprintf_d(o.keepLast)>> ELSE <<>>)
    \o (IF o.prune THEN <<"--prune">> ELSE <<>>)

\* forgetOptions.args (src/filter/filter.go:338-367)
forgetOptions_args(o) ==
    (IF o.id # "" THEN <<o.id>> ELSE <<>>)
    \o FlagPairs("--host", o.hosts)
    \o FlagPairs("--path", o.paths)
    \o FlagPairs("--tag", o.tags)
    \o (IF o.keepLast > 0 THEN <<"--keep-last", Sprintf_d(o.keepLast)>> ELSE <<>>)
    \o (IF o.prune THEN <<"--prune">> ELSE <<>>)

\* restoreOptions.args (src/filter/filter.go:415-439)
restoreOptions_args(o) ==
    FlagPairs("--host", o.hosts)
    \o FlagPairs("--path", o.paths)
    \o FlagPairs("--tag", o.tags)
    \o FlagPairs("--exclude", o.exclude)
    \o FlagPairs("--include", o.include)

\* package filter: options.args (src/filter/filter.go:47-67)
filter_options_args(o) ==
    FlagPairs("--host", o.hosts)
    \o FlagPairs("--path", o.paths)
    \o FlagPairs("--tag", o.tags)
    \o (IF o.latest > 0 THEN <<"--latest", Sprintf_d(o.latest)>> ELSE <<>>)

\* package forget: options.args (src/filter/filter.go:129-158)
forget_options_args(o) ==
    (IF o.id # "" THEN <<o.id>> ELSE <<>>)
    \o FlagPairs("--host", o.hosts)
    \o FlagPairs("--path", o.paths)
    \o FlagPairs("--tag", o.tags)
    \o (IF o.keepLast > 0 THEN <<"--keep-last", Sprintf_d(o.keepLast)>> ELSE <<>>)
    \o (IF o.prune THEN <<"--prune">> ELSE <<>>)

\* package restore: options.args (src/restore/restore.go:52-76)
restore_options_args(o) ==
    FlagPairs("--host", o.hosts)
    \o FlagPairs("--path", o.paths)
    \o FlagPairs("--tag", o.tags)
    \o FlagPairs("--exclude", o.exclude)
    \o FlagPairs("--include", o.include)

\* package backup: options.args (src/unnamed/part_000:52-68); the method has
\* no loop over opts.include, and opts.path is not read
backup_options_args(o) ==
    (IF o.host # "" THEN <<"--host", o.host>> ELSE <<>>)
    \o FlagPairs("--tag", o.tags)
    \o FlagPairs("--exclude", o.exclude)

\* opts.args() of the family's record
Args(fam, o) ==
    CASE fam = "backup" -> backupOptions_args(o)
      [] fam = "filter" -> filterOptions_args(o)
      [] fam = "forget" -> forgetOptions_args(o)
      [] fam = "restore" -> restoreOptions_args(o)
      [] fam = "filterPkg" -> filter_options_args(o)
      [] fam = "forgetPkg" -> forget_options_args(o)
      [] fam = "restorePkg" -> restore_options_args(o)
      [] fam = "backupPkg" -> backup_options_args(o)

InitArgsVars ==
    /\ family \in Families
    /\ opts = ZeroOptions
    /\ applied = <<>>
    /\ argv = <<>>
    /\ pcArgs = "build"

IdleArgsVars ==
    /\ family = "backup"
    /\ opts = ZeroOptions
    /\ applied = <<>>
    /\ argv = <<>>
    /\ pcArgs = "idle"

\* `for _, opt := range options { opt(&opts) }`: one iteration
Apply ==
    /\ pcArgs = "build"
    /\ Len(applied) < MaxCalls
    /\ \E st \in Setters(family) :
           \E v \in ArgsFor(st) :
               /\ opts' = ApplyOption(opts, st, v)
               /\ applied' = Append(applied, [fn |-> st.fn, field |-> st.field,
                                               how |-> st.how, arg |-> v])
    /\ UNCHANGED <<family, argv, pcArgs, summaryVars, stdErrVars, idVars, parseIDVars, repoVars, onceVars, opsVars>>

\* `opts.args()`
Compile ==
    /\ pcArgs = "build"
    /\ argv' = Args(family, opts)
    /\ pcArgs' = "compiled"
    /\ UNCHANGED <<family, opts, applied, summaryVars, stdErrVars, idVars, parseIDVars, repoVars, onceVars, opsVars>>

----------------------------------------------------------------------------
(* The readiness check (src/restic.go): checkResticVersion runs its body   *)
(* under resticCheckOnce and returns the package variable resticCheckErr.  *)

resticBin == "restic"
minVersion == "0.16.0"

\* the nil error
ErrNil == [sentinel |-> "nil", msg |-> ""]

\* fmt.Errorf(prefix + "%w" + suffix, e): the text around e's, e still in the chain
Wrap(prefix, e, suffix) == [sentinel |-> e.sentinel, msg |-> prefix \o e.msg \o suffix]

\* errors.Is(e, target) for a sentinel target
ErrorsIs(e, sentinelErr) == e # ErrNil /\ e.sentinel = sentinelErr.sentinel

\* exec.LookPath's error: *exec.Error wrapping exec.ErrNotFound
LookPathError ==
    [sentinel |-> "exec.ErrNotFound",
     msg |-> "exec: \"restic\": executable file not found in $PATH"]

White == {" ", "\n", "\t", "\r"}

\* strings.Fields(s), from index i on
RECURSIVE FieldsFrom(_, _)
FieldsFrom(s, i) ==
    LET A == {j \in i..Len(s) : Char(s, j) \notin White}
    IN  IF A = {} THEN <<>>
        ELSE LET a == Min(A)
                 B == {j \in a..Len(s) : Char(s, j) \in White}
                 b == IF B = {} THEN Len(s) + 1 ELSE Min(B)
             IN  <<SubSeq(s, a, b - 1)>> \o FieldsFrom(s, b)

Fields(s) == FieldsFrom(s, 1)

Digits == "0123456789"

\* the value of a string of decimal digits, -1 for any other string
RECURSIVE ParseUint(_)
ParseUint(s) ==
    IF s = "" THEN -1
    ELSE LET last == Char(s, Len(s))
             d == IndexFrom(Digits, last, 1) - 1
             rest == IF Len(s) = 1 THEN 0 ELSE ParseUint(SubSeq(s, 1, Len(s) - 1))
         IN  IF d < 0 \/ rest < 0 THEN -1 ELSE 10 * rest + d

\* the dot-separated parts of s
RECURSIVE SplitDots(_)
SplitDots(s) ==
    LET d == IndexFrom(s, ".", 1)
    IN  IF d = 0 THEN <<s>>
        ELSE <<SubSeq(s, 1, d - 1)>> \o SplitDots(SubSeq(s, d + 1, Len(s)))

\* version.NewVersion(s) of hashicorp/go-version: an optional v, numeric
\* segments separated by dots (padded with zeros to three), an optional
\* pre-release after a dash
NewVersion(s) ==
    LET body == IF Char(s, 1) = "v" THEN SubSeq(s, 2, Len(s)) ELSE s
        dash == IndexFrom(body, "-", 1)
        core == IF dash = 0 THEN body ELSE SubSeq(body, 1, dash - 1)
        pre == IF dash = 0 THEN "" ELSE SubSeq(body, dash + 1, Len(body))
        parts == SplitDots(core)
        nums == [k \in 1..Len(parts) |-> ParseUint(parts[k])]
        bad == (\E k \in 1..Len(nums) : nums[k] < 0) \/ (dash # 0 /\ pre = "")
    IN  IF bad THEN [err |-> TRUE, segments |-> <<>>, pre |-> ""]
        ELSE [err |-> FALSE,
              segments |-> [k \in 1..(IF Len(nums) < 3 THEN 3 ELSE Len(nums)) |->
                               IF k <= Len(nums) THEN nums[k] ELSE 0],
              pre |-> pre]

\* v.LessThan(w) for a w without pre-release and three segments
LessThan(v, w) ==
    LET seg(x, k) == IF k <= Len(x.segments) THEN x.segments[k] ELSE 0
        n == IF Len(v.segments) > Len(w.segments) THEN Len(v.segments) ELSE Len(w.segments)
        D == {k \in 1..n : seg(v, k) # seg(w, k)}
    IN  IF D = {} THEN v.pre # "" /\ w.pre = ""
        ELSE seg(v, Min(D)) < seg(w, Min(D))

\* v.String()
RECURSIVE JoinDots(_)
JoinDots(ns) ==
    IF Len(ns) = 0 THEN ""
    ELSE IF Len(ns) = 1 THEN ToString(ns[1])
    ELSE ToString(ns[1]) \o "." \o JoinDots(Tail(ns))

VersionString(v) == JoinDots(v.segments) \o (IF v.pre = "" THEN "" ELSE "-" \o v.pre)

\* The function given to resticCheckOnce.Do (restic.go:27-66) in environment
\* e: the value resticCheckErr has when it returns (nil when no branch
\* assigns it)
checkBody(e) ==
    IF ~e.bin
    THEN Wrap("restic not found in PATH: ", LookPathError,
              " (install from https://restic.readthedocs.io/en/latest/020_installation.html)")
    ELSE IF e.runErr
    THEN NewError("failed to get restic version: exit status 1")
    ELSE LET fields == Fields(e.out)
         IN  IF Len(fields) < 2
             THEN NewError("unexpected restic version output: " \o e.out)
             ELSE LET v == NewVersion(fields[2])
                      minV == NewVersion(minVersion)
                  IN  IF v.err
                      THEN NewError("failed to parse restic version \"" \o fields[2]
                                    \o "\": Malformed version: " \o fields[2])
                      ELSE IF minV.err
                      THEN NewError("invalid minimum version \"" \o minVersion \o "\"")
                      ELSE IF LessThan(v, minV)
                      THEN NewError("restic version " \o VersionString(v)
                                    \o " is too old, minimum required version is "
                                    \o minVersion)
                      ELSE ErrNil

\* what `restic version` prints, and what other programs of that name print
VersionOutputs ==
    { "restic 0.16.0 compiled with go1.21.0 on linux/amd64\n",
      "restic 0.17.3 compiled with go1.23.3 on linux/amd64\n",
      "restic 0.15.2 compiled with go1.20.3 on linux/amd64\n",
      "restic 0.9.6 compiled with go1.13.4 on linux/amd64\n",
      "restic 0.16.0-dev (compiled manually) compiled with go1.21.0\n",
      "restic 1.0\n",
      "restic unknown\n",
      "restic\n" }

\* the environments a process can find itself in
Environments ==
    {[bin |-> FALSE, runErr |-> FALSE, out |-> ""],
     [bin |-> TRUE, runErr |-> TRUE, out |-> ""]}
    \cup {[bin |-> TRUE, runErr |-> FALSE, out |-> o] : o \in VersionOutputs}

\* concurrent callers of checkResticVersion
NumCallers == 2
Callers == 1..NumCallers

OnceZero == [done |-> 0, m |-> 0]

InitOnceVars ==
    /\ resticCheckOnce = OnceZero
    /\ resticCheckErr = ErrNil
    /\ env \in Environments
    /\ bodyRuns = 0
    /\ pcCaller = [c \in Callers |-> "idle"]
    /\ callerRet = [c \in Callers |-> NoError]

IdleOnceVars ==
    /\ resticCheckOnce = OnceZero
    /\ resticCheckErr = ErrNil
    /\ env = [bin |-> TRUE, runErr |-> FALSE, out |-> ""]
    /\ bodyRuns = 0
    /\ pcCaller = [c \in Callers |-> "idle"]
    /\ callerRet = [c \in Callers |-> NoError]

opsRest == <<op, path, target, snapshotID, options, ctx, dirs, pcOp, cmdArgs,
             cmdStdOut, cmdStdErr, writes, cmdRun, opRet>>

\* a caller outside any operation enters checkResticVersion
CallCheck(c) ==
    /\ pcOp = "idle"
    /\ pcCaller[c] \in {"idle", "done"}
    /\ pcCaller' = [pcCaller EXCEPT ![c] = "fast"]
    /\ UNCHANGED <<resticCheckOnce, resticCheckErr, env, bodyRuns, callerRet>>
    /\ UNCHANGED <<summaryVars, stdErrVars, argsVars, idVars, parseIDVars, repoVars, opsVars>>

\* Once.Do: `if o.done.Load() == 0 { o.doSlow(f) }`
OnceFast(c) ==
    /\ pcCaller[c] = "fast"
    /\ pcCaller' = [pcCaller EXCEPT ![c] = IF resticCheckOnce.done = 0 THEN "lock"
                                            ELSE "return"]
    /\ UNCHANGED <<resticCheckOnce, resticCheckErr, env, bodyRuns, callerRet>>
    /\ UNCHANGED <<summaryVars, stdErrVars, argsVars, idVars, parseIDVars, repoVars, opsVars>>

\* A plausible slip: no mutual exclusion around the slow path
OnceLock_NoMutex(c) ==
    /\ pcCaller[c] = "lock"
    /\ resticCheckOnce' = [resticCheckOnce EXCEPT !.m = c]
    /\ pcCaller' = [pcCaller EXCEPT ![c] = "slow"]
    /\ UNCHANGED <<resticCheckErr, env, bodyRuns, callerRet>>
    /\ UNCHANGED <<summaryVars, stdErrVars, argsVars, idVars, parseIDVars, repoVars, opsVars>>

\* doSlow: `o.m.Lock()`
OnceLock(c) ==
    /\ pcCaller[c] = "lock"
    /\ resticCheckOnce.m = 0
    /\ resticCheckOnce' = [resticCheckOnce EXCEPT !.m = c]
    /\ pcCaller' = [pcCaller EXCEPT ![c] = "slow"]
    /\ UNCHANGED <<resticCheckErr, env, bodyRuns, callerRet>>
    /\ UNCHANGED <<summaryVars, stdErrVars, argsVars, idVars, parseIDVars, repoVars, opsVars>>

\* doSlow: `if o.done.Load() == 0 { defer o.done.Store(1); f() }`, up to the
\* entry of f
OnceSlow(c) ==
    /\ pcCaller[c] = "slow"
    /\ IF resticCheckOnce.done = 0
       THEN /\ pcCaller' = [pcCaller EXCEPT ![c] = "body"]
            /\ bodyRuns' = bodyRuns + 1
       ELSE /\ pcCaller' = [pcCaller EXCEPT ![c] = "unlock"]
            /\ UNCHANGED bodyRuns
    /\ UNCHANGED <<resticCheckOnce, resticCheckErr, env, callerRet>>
    /\ UNCHANGED <<summaryVars, stdErrVars, argsVars, idVars, parseIDVars, repoVars, opsVars>>

\* f: the lookup, the `restic version` subprocess when the binary resolves,
\* the comparison; resticCheckErr assigned
OnceBody(c) ==
    /\ pcCaller[c] = "body"
    /\ resticCheckErr' = checkBody(env)
    /\ launched' = IF env.bin THEN Append(launched, [argv |-> <<resticBin, "version">>, dir |-> ""]) ELSE launched
    /\ pcCaller' = [pcCaller EXCEPT ![c] = "store"]
    /\ UNCHANGED <<resticCheckOnce, env, bodyRuns, callerRet, opsRest>>
    /\ UNCHANGED <<summaryVars, stdErrVars, argsVars, idVars, parseIDVars, repoVars>>

\* the deferred `o.done.Store(1)`
OnceStore(c) ==
    /\ pcCaller[c] = "store"
    /\ resticCheckOnce' = [resticCheckOnce EXCEPT !.done = 1]
    /\ pcCaller' = [pcCaller EXCEPT ![c] = "unlock"]
    /\ UNCHANGED <<resticCheckErr, env, bodyRuns, callerRet>>
    /\ UNCHANGED <<summaryVars, stdErrVars, argsVars, idVars, parseIDVars, repoVars, opsVars>>

\* the deferred `o.m.Unlock()`
OnceUnlock(c) ==
    /\ pcCaller[c] = "unlock"
    /\ resticCheckOnce' = [resticCheckOnce EXCEPT !.m = 0]
    /\ pcCaller' = [pcCaller EXCEPT ![c] = "return"]
    /\ UNCHANGED <<resticCheckErr, env, bodyRuns, callerRet>>
    /\ UNCHANGED <<summaryVars, stdErrVars, argsVars, idVars, parseIDVars, repoVars, opsVars>>

\* `return resticCheckErr`
CheckReturn(c) ==
    /\ pcCaller[c] = "return"
    /\ callerRet' = [callerRet EXCEPT ![c] = resticCheckErr]
    /\ pcCaller' = [pcCaller EXCEPT ![c] = "done"]
    /\ UNCHANGED <<resticCheckOnce, resticCheckErr, env, bodyRuns>>
    /\ UNCHANGED <<summaryVars, stdErrVars, argsVars, idVars, parseIDVars, repoVars, opsVars>>

checkResticVersion ==
    \E c \in Callers :
        \/ OnceFast(c) \/ OnceLock(c) \/ OnceSlow(c) \/ OnceBody(c)
        \/ OnceStore(c) \/ OnceUnlock(c) \/ CheckReturn(c)

----------------------------------------------------------------------------
(* The public operations (src/repo.go:39-254) and command (257-296).       *)

Ops == {"Init", "Validate", "Backup", "Snapshots", "SnapshotById", "Restore", "Forget",
        "Unlock"}

\* the operations that return a result beside the error
ResultOps == {"Init", "Backup", "Snapshots", "SnapshotById", "Restore", "Forget"}

\* the file system the call finds: the directories that exist, the paths
\* os.Stat cannot examine, the paths os.MkdirAll cannot create
ExistingDirs == {"/data"}
Unreadable == {"/root/secret"}
Uncreatable == {"/proc/x"}

\* the error text of os.Stat(p), "" for nil
StatErr(p, ds) ==
    IF p \in ds THEN ""
    ELSE IF p \in Unreadable THEN "permission denied"
    ELSE "no such file or directory"

\* isPathExists (repo.go:318-326): false only for os.ErrNotExist
isPathExists(p, ds) == StatErr(p, ds) # "no such file or directory"

\* the error text of os.MkdirAll(p, 0755), "" for nil
MkdirAllErr(p) == IF p \in Uncreatable THEN "mkdir " \o p \o ": permission denied" ELSE ""

\* json.Unmarshal(data, &list) for a slice of structs or of pointers to
\* structs: [err, value], value "nil" (the slice stays nil), "empty" or
\* "value"; elems and firstNull as the decoder counted them
UnmarshalList(data) ==
    LET st == Decode(data, DecodeStart)
        none == [err |-> "", value |-> "nil", elems |-> 0, firstNull |-> FALSE]
    IN  IF st.mode = "fail" THEN [none EXCEPT !.err = "syntax error"]
        ELSE IF st.top = "null" THEN none
        ELSE IF st.top # "array" \/ st.elemErr THEN [none EXCEPT !.err = "cannot unmarshal"]
        ELSE [err |-> "", value |-> IF st.elems = 0 THEN "empty" ELSE "value",
              elems |-> st.elems, firstNull |-> st.firstNull]

\* `for _, opt := range options { opt(&opts) }` from the zero record
RECURSIVE ApplyAll(_)
ApplyAll(os) ==
    IF Len(os) = 0 THEN ZeroOptions
    ELSE ApplyOption(ApplyAll(SubSeq(os, 1, Len(os) - 1)), os[Len(os)], os[Len(os)].arg)

Fail(e) == [fail |-> TRUE, err |-> e, dir |-> "", args |-> <<>>]
Run(dir, args) == [fail |-> FALSE, err |-> ErrNil, dir |-> dir, args |-> args]

\* Each operation up to its call of command: the error it returns at once, or
\* the working directory and the arguments it hands to command.
Init_entry == Run("", <<"init">>)

Validate_entry == Run("", <<"snapshots", "--json", "--last", "--no-lock">>)

Backup_entry(p, os, ds) ==
    IF p = "" THEN Fail(NewError("empty path"))
    ELSE IF StatErr(p, ds) # "" THEN Fail(NewError("stat " \o p \o ": " \o StatErr(p, ds)))
    ELSE Run(p, <<"backup", "--json">> \o backupOptions_args(ApplyAll(os)) \o <<".">>)

Snapshots_entry(os) ==
    Run("", <<"--no-lock", "snapshots", "--json">> \o filterOptions_args(ApplyAll(os)))

SnapshotById_entry(sid) == Run("", <<"snapshots", "--json", sid>>)

Restore_entry(sid, tgt, os, ds) ==
    IF tgt = "" THEN Fail(NewError("no target path"))
    ELSE IF ~isPathExists(tgt, ds) /\ MkdirAllErr(tgt) # "" THEN Fail(NewError(MkdirAllErr(tgt)))
    ELSE IF sid = "" THEN Fail(NewError("empty snapshot id"))
    ELSE IF ~isSnapshotID(sid) THEN Fail(ErrInvalidID)
    ELSE Run("", <<"restore", sid, "--target", tgt, "--json">>
                 \o restoreOptions_args(ApplyAll(os)))

\* os.MkdirAll in Restore: the directories after the call
Restore_dirs(tgt, ds) ==
    IF tgt # "" /\ ~isPathExists(tgt, ds) /\ MkdirAllErr(tgt) = "" THEN ds \cup {tgt} ELSE ds

\* A plausible slip: the test of len(options) left out
Forget_entry_NoCheck(os) == Run("", <<"--json", "forget">> \o forgetOptions_args(ApplyAll(os)))

Forget_entry(os) ==
    IF Len(os) = 0 THEN Fail(NewError("at least one option must be set"))
    ELSE Run("", <<"--json", "forget">> \o forgetOptions_args(ApplyAll(os)))

Unlock_entry == Run("", <<"unlock", "--remove-all", "--json">>)

\* Each operation after command returned out with a nil error: [result, err],
\* result "nil", "empty" (a slice of length 0), "value" or "none" (the
\* operation has no result).  res is what getSummary(out) returned.
Returns(result, e) == [result |-> result, err |-> e]

Init_result == Returns("value", ErrNil)

\* A plausible slip: the error of getSummary dropped
Backup_result_Swallow(res) ==
    IF res.err # "" THEN Returns("nil", ErrNil)
    ELSE IF Unmarshal(res.data).err # ""
    THEN Returns("nil", NewError("failed to parse backup summary: " \o Unmarshal(res.data).err))
    ELSE Returns("value", ErrNil)

Backup_result(res) ==
    IF res.err # "" THEN Returns("nil", NewError(res.err))
    ELSE IF Unmarshal(res.data).err # ""
    THEN Returns("nil", NewError("failed to parse backup summary: " \o Unmarshal(res.data).err))
    ELSE Returns("value", ErrNil)

Restore_result(res) ==
    IF res.err # "" THEN Returns("nil", NewError(res.err))
    ELSE IF Unmarshal(res.data).err # ""
    THEN Returns("nil", NewError("failed to parse restore summary: " \o Unmarshal(res.data).err))
    ELSE Returns("value", ErrNil)

Snapshots_result(out) ==
    LET l == UnmarshalList(out)
    IN  IF l.err # "" THEN Returns("nil", NewError("failed to parse snapshots: " \o l.err))
        ELSE Returns(l.value, ErrNil)

SnapshotById_result(out, sid) ==
    LET l == UnmarshalList(out)
    IN  IF l.err # "" THEN Returns("nil", NewError("failed to parse snapshot: " \o l.err))
        ELSE IF l.elems < 1 THEN Returns("nil", NewError("no snapshot with id '" \o sid \o "'"))
        ELSE Returns(IF l.firstNull THEN "nil" ELSE "value", ErrNil)

Forget_result(res) ==
    LET l == UnmarshalList(res.data)
    IN  IF res.err # "" THEN Returns("nil", NewError(res.err))
        ELSE IF l.err # ""
        THEN Returns("nil", NewError("forget operation completed but JSON parsing failed (restic version may have limited JSON support): " \o l.err))
        ELSE Returns(l.value, ErrNil)

\* the operations that pass the output through getSummary
SummaryOps == {"Backup", "Restore", "Forget"}

\* what the operation returns when command returned out and no error
Result(o, out, res, sid) ==
    CASE o = "Init" -> Init_result
      [] o = "Backup" -> Backup_result(res)
      [] o = "Restore" -> Restore_result(res)
      [] o = "Snapshots" -> Snapshots_result(out)
      [] o = "SnapshotById" -> SnapshotById_result(out, sid)
      [] o = "Forget" -> Forget_result(res)
      [] OTHER -> Returns("none", ErrNil)

\* what the operation returns when command returned the error e
Failed(o, e) ==
    CASE o = "Validate" -> Returns("none", Wrap("repository validation failed: ", e, ""))
      [] o = "Unlock" -> Returns("none", e)
      [] OTHER -> Returns("nil", e)

\* what the operation returns when its own checks fail with e
Rejected(o, e) == Returns(IF o \in ResultOps THEN "nil" ELSE "none", e)

\* the inputs of a call
SourcePaths == {"", "/data", "/missing", "/root/secret"}
TargetPaths == {"", "/data", "/new/dir", "/proc/x"}
SnapshotIDs == {"", "latest", "invalid-id", "0123abcd:/etc"}
Contexts == {"live", "canceled", "deadline"}

OptionArgs(st) ==
    CASE st.how = "append" -> {<<"a">>}
      [] st.how = "true" -> {TRUE}
      [] st.field \in {"latest", "keepLast"} -> UintArgs
      [] OTHER -> {"", "latest"}

OptionCalls(fam) ==
    UNION {{[fn |-> st.fn, field |-> st.field, how |-> st.how, arg |-> v] :
               v \in OptionArgs(st)} : st \in Setters(fam)}

\* the option lists passed to a call: none, or one option function
OptionLists(fam) == {<<>>} \cup {<<c>> : c \in OptionCalls(fam)}

OptionFamily ==
    [o \in {"Backup", "Snapshots", "Forget", "Restore"} |->
        CASE o = "Backup" -> "backup"
          [] o = "Snapshots" -> "filter"
          [] o = "Forget" -> "forget"
          [] o = "Restore" -> "restore"]

\* the subprocess writes at most this many chunks
MaxWrites == 2

\* what the subprocess writes, one chunk per write
Chunks ==
    {[stream |-> "stdout", data |-> d] :
        d \in {"{\"message_type\":\"status\",\"percent_done\":0.5}\n",
               "{\"message_type\":\"summary\",\"files_new\":10}\n",
               "[{\"tags\":null,\"host\":\"h\",\"keep\":[]}]\n",
               "null", "[null]"}}
    \cup {[stream |-> "stderr", data |-> d] :
            d \in {"Fatal: wrong password or no key found\n"}}

\* the environments tried with the operations
OpEnvironments ==
    {[bin |-> FALSE, runErr |-> FALSE, out |-> ""],
     [bin |-> TRUE, runErr |-> FALSE,
      out |-> "restic 0.15.2 compiled with go1.20.3 on linux/amd64\n"],
     [bin |-> TRUE, runErr |-> FALSE,
      out |-> "restic 0.16.0 compiled with go1.21.0 on linux/amd64\n"]}

NoCommand == [dir |-> "", args |-> <<>>]

InitOpsVars ==
    /\ op \in Ops
    /\ path \in (IF op = "Backup" THEN SourcePaths ELSE {""})
    /\ target \in (IF op = "Restore" THEN TargetPaths ELSE {""})
    /\ snapshotID \in (IF op \in {"Restore", "SnapshotById"} THEN SnapshotIDs ELSE {""})
    /\ options \in (IF op \in DOMAIN OptionFamily
                    THEN OptionLists(OptionFamily[op])
                    ELSE {<<>>})
    /\ ctx \in Contexts
    /\ dirs = ExistingDirs
    /\ pcOp = "call"
    /\ cmdArgs = NoCommand
    /\ launched = <<>>
    /\ cmdStdOut = ""
    /\ cmdStdErr = ""
    /\ writes = <<>>
    /\ cmdRun = ""
    /\ opRet = Returns("none", NoError)

IdleOpsVars ==
    /\ op = "Init"
    /\ path = ""
    /\ target = ""
    /\ snapshotID = ""
    /\ options = <<>>
    /\ ctx = "live"
    /\ dirs = ExistingDirs
    /\ pcOp = "idle"
    /\ cmdArgs = NoCommand
    /\ launched = <<>>
    /\ cmdStdOut = ""
    /\ cmdStdErr = ""
    /\ writes = <<>>
    /\ cmdRun = ""
    /\ opRet = Returns("none", NoError)

\* the readiness check has not been made when the call begins
InitOpsOnceVars ==
    /\ env \in OpEnvironments
    /\ resticCheckOnce = OnceZero
    /\ resticCheckErr = ErrNil
    /\ bodyRuns = 0
    /\ pcCaller = [c \in Callers |-> "idle"]
    /\ callerRet = [c \in Callers |-> NoError]

\* the operation named o runs up to its call of command, or returns
Enter(o, e) ==
    /\ pcOp = "call"
    /\ op = o
    /\ IF e.fail
       THEN /\ opRet' = Rejected(o, e.err)
            /\ pcOp' = "done"
            /\ UNCHANGED cmdArgs
       ELSE /\ cmdArgs' = [dir |-> e.dir, args |-> e.args]
            /\ pcOp' = "command"
            /\ UNCHANGED opRet
    /\ UNCHANGED <<op, path, target, snapshotID, options, ctx, launched, cmdStdOut,
                   cmdStdErr, writes, cmdRun>>
    /\ UNCHANGED <<summaryVars, stdErrVars, argsVars, idVars, parseIDVars, repoVars, onceVars>>

Repository_init == Enter("Init", Init_entry) /\ UNCHANGED dirs
Repository_Validate == Enter("Validate", Validate_entry) /\ UNCHANGED dirs
Repository_Backup == Enter("Backup", Backup_entry(path, options, dirs)) /\ UNCHANGED dirs
Repository_Snapshots == Enter("Snapshots", Snapshots_entry(options)) /\ UNCHANGED dirs
Repository_SnapshotById ==
    Enter("SnapshotById", SnapshotById_entry(snapshotID)) /\ UNCHANGED dirs
Repository_Restore ==
    /\ Enter("Restore", Restore_entry(snapshotID, target, options, dirs))
    /\ dirs' = Restore_dirs(target, dirs)
Repository_Forget == Enter("Forget", Forget_entry(options)) /\ UNCHANGED dirs
Repository_Unlock == Enter("Unlock", Unlock_entry) /\ UNCHANGED dirs

\* command: `checkResticVersion()` called (repo.go:259)
command_check ==
    /\ pcOp = "command"
    /\ pcCaller' = [pcCaller EXCEPT ![1] = "fast"]
    /\ pcOp' = "check"
    /\ UNCHANGED <<resticCheckOnce, resticCheckErr, env, bodyRuns, callerRet>>
    /\ UNCHANGED <<op, path, target, snapshotID, options, ctx, dirs, cmdArgs, launched,
                   cmdStdOut, cmdStdErr, writes, cmdRun, opRet>>
    /\ UNCHANGED <<summaryVars, stdErrVars, argsVars, idVars, parseIDVars, repoVars>>

\* A plausible slip: the error of the readiness check not looked at
command_checked_Ignored ==
    /\ pcOp = "check"
    /\ pcCaller[1] = "done"
    /\ pcOp' = "start"
    /\ UNCHANGED <<op, path, target, snapshotID, options, ctx, dirs, cmdArgs, launched,
                   cmdStdOut, cmdStdErr, writes, cmdRun, opRet>>
    /\ UNCHANGED <<summaryVars, stdErrVars, argsVars, idVars, parseIDVars, repoVars, onceVars>>

\* command: checkResticVersion returned (repo.go:259-261)
command_checked ==
    /\ pcOp = "check"
    /\ pcCaller[1] = "done"
    /\ IF callerRet[1] # ErrNil
       THEN /\ opRet' = Failed(op, Wrap("restic validation failed: ", callerRet[1], ""))
            /\ pcOp' = "done"
       ELSE /\ pcOp' = "start"
            /\ UNCHANGED opRet
    /\ UNCHANGED <<op, path, target, snapshotID, options, ctx, dirs, cmdArgs, launched,
                   cmdStdOut, cmdStdErr, writes, cmdRun>>
    /\ UNCHANGED <<summaryVars, stdErrVars, argsVars, idVars, parseIDVars, repoVars, onceVars>>

\* command: cmd.Run() starts the subprocess (repo.go:263-291); with a context
\* that is done already exec returns ctx.Err() and starts nothing, and command
\* returns parseStdErr of the empty buffer
\* A plausible slip: cmd.Dir never set
command_start_NoDir ==
    /\ pcOp = "start"
    /\ IF ctx # "live"
       THEN /\ cmdRun' = "not started"
            /\ opRet' = Failed(op, parseStdErr(cmdStdErr))
            /\ pcOp' = "done"
            /\ UNCHANGED launched
       ELSE /\ launched' = Append(launched, [argv |-> <<resticBin>> \o cmdArgs.args,
                                             dir |-> ""])
            /\ pcOp' = "running"
            /\ UNCHANGED <<cmdRun, opRet>>
    /\ UNCHANGED <<op, path, target, snapshotID, options, ctx, dirs, cmdArgs,
                   cmdStdOut, cmdStdErr, writes>>
    /\ UNCHANGED <<summaryVars, stdErrVars, argsVars, idVars, parseIDVars, repoVars, onceVars>>

command_start ==
    /\ pcOp = "start"
    /\ IF ctx # "live"
       THEN /\ cmdRun' = "not started"
            /\ opRet' = Failed(op, parseStdErr(cmdStdErr))
            /\ pcOp' = "done"
            /\ UNCHANGED launched
       ELSE /\ launched' = Append(launched, [argv |-> <<resticBin>> \o cmdArgs.args,
                                             dir |-> cmdArgs.dir])
            /\ pcOp' = "running"
            /\ UNCHANGED <<cmdRun, opRet>>
    /\ UNCHANGED <<op, path, target, snapshotID, options, ctx, dirs, cmdArgs,
                   cmdStdOut, cmdStdErr, writes>>
    /\ UNCHANGED <<summaryVars, stdErrVars, argsVars, idVars, parseIDVars, repoVars, onceVars>>

\* the subprocess writes a chunk; exec copies it into the bytes.Buffer of the
\* stream (repo.go:276-277, 287-288), whose Write appends and returns no error
subprocess_write ==
    /\ pcOp = "running"
    /\ Len(writes) < MaxWrites
    /\ \E w \in Chunks :
           /\ cmdStdOut' = IF w.stream = "stdout" THEN cmdStdOut \o w.data ELSE cmdStdOut
           /\ cmdStdErr' = IF w.stream = "stderr" THEN cmdStdErr \o w.data ELSE cmdStdErr
           /\ writes' = Append(writes, [stream |-> w.stream, n |-> Len(w.data), err |-> ""])
    /\ UNCHANGED <<op, path, target, snapshotID, options, ctx, dirs, pcOp, cmdArgs, launched,
                   cmdRun, opRet>>
    /\ UNCHANGED <<summaryVars, stdErrVars, argsVars, idVars, parseIDVars, repoVars, onceVars>>

\* the caller cancels the context, or its deadline passes, while the
\* subprocess runs
context_done ==
    /\ pcOp = "running"
    /\ ctx = "live"
    /\ ctx' \in {"canceled", "deadline"}
    /\ UNCHANGED <<op, path, target, snapshotID, options, dirs, pcOp, cmdArgs, launched,
                   cmdStdOut, cmdStdErr, writes, cmdRun, opRet>>
    /\ UNCHANGED <<summaryVars, stdErrVars, argsVars, idVars, parseIDVars, repoVars, onceVars>>

\* A plausible slip: a failed run started again
command_wait_Retry ==
    /\ pcOp = "running"
    /\ \E ok \in BOOLEAN :
           IF ok
           THEN /\ cmdRun' = "exit 0"
                /\ pcOp' = "returned"
                /\ IF op \in SummaryOps
                   THEN /\ output' = cmdStdOut
                        /\ pcSummary' = "scan"
                   ELSE UNCHANGED <<output, pcSummary>>
                /\ UNCHANGED opRet
           ELSE /\ pcOp' = "start"
                /\ UNCHANGED <<cmdRun, opRet, output, pcSummary>>
    /\ UNCHANGED <<op, path, target, snapshotID, options, ctx, dirs, cmdArgs, launched,
                   cmdStdOut, cmdStdErr, writes>>
    /\ UNCHANGED <<scanPos, scanned, lastSummaryLine, sumRet>>
    /\ UNCHANGED <<stdErrVars, argsVars, idVars, parseIDVars, repoVars, onceVars>>

\* cmd.Run() returns (repo.go:291-295): the subprocess exited with status 0
\* and command returns the output, which Backup, Restore and Forget hand to
\* getSummary; or it failed (a non-zero status, or killed because the context
\* is done) and the operation returns the error of parseStdErr
command_wait ==
    /\ pcOp = "running"
    /\ \E ok \in BOOLEAN :
           IF ok
           THEN /\ cmdRun' = "exit 0"
                /\ pcOp' = "returned"
                /\ IF op \in SummaryOps
                   THEN /\ output' = cmdStdOut
                        /\ pcSummary' = "scan"
                   ELSE UNCHANGED <<output, pcSummary>>
                /\ UNCHANGED opRet
           ELSE /\ cmdRun' = "failed"
                /\ opRet' = Failed(op, parseStdErr(cmdStdErr))
                /\ pcOp' = "done"
                /\ UNCHANGED <<output, pcSummary>>
    /\ UNCHANGED <<op, path, target, snapshotID, options, ctx, dirs, cmdArgs, launched,
                   cmdStdOut, cmdStdErr, writes>>
    /\ UNCHANGED <<scanPos, scanned, lastSummaryLine, sumRet>>
    /\ UNCHANGED <<stdErrVars, argsVars, idVars, parseIDVars, repoVars, onceVars>>

\* the rest of the operation: the output, or the line getSummary returned,
\* deserialized into the result
operation_return ==
    /\ pcOp = "returned"
    /\ op \in SummaryOps => pcSummary = "done"
    /\ opRet' = Result(op, cmdStdOut, sumRet, snapshotID)
    /\ pcOp' = "done"
    /\ UNCHANGED <<op, path, target, snapshotID, options, ctx, dirs, cmdArgs, launched,
                   cmdStdOut, cmdStdErr, writes, cmdRun>>
    /\ UNCHANGED <<summaryVars, stdErrVars, argsVars, idVars, parseIDVars, repoVars, onceVars>>

----------------------------------------------------------------------------
(* The identifier type (src/snapshots.go:57-116): ID is an array of idSize *)
(* bytes, written as lower-case hexadecimal text.  A byte is a number in   *)
(* 0..255, an ID a sequence of idSize of them.                             *)

\* `const idSize = sha256.Size`
idSize == 32

\* the zero value ID{}
ZeroID == [k \in 1..idSize |-> 0]

\* hex.EncodedLen(n)
EncodedLen(n) == n * 2

\* encoding/hex: the table "0123456789abcdef"
hextable == <<"0", "1", "2", "3", "4", "5", "6", "7", "8", "9", "a", "b", "c", "d", "e", "f">>

\* encoding/hex: the value of a digit, upper-case letters included; -1 for
\* a byte that is no hexadecimal digit
fromHexChar(c) ==
    IF \E k \in 1..16 : hextable[k] = c
    THEN (CHOOSE k \in 1..16 : hextable[k] = c) - 1
    ELSE CASE c = "A" -> 10 [] c = "B" -> 11 [] c = "C" -> 12
           [] c = "D" -> 13 [] c = "E" -> 14 [] c = "F" -> 15
           [] OTHER -> -1

\* hex.Decode(dst, src): the bytes decoded before the first invalid digit,
\* and the error ("" for nil); an odd length is ErrLength after the pairs
hexDecode(src) ==
    LET pairs == Len(src) \div 2
        bad == {j \in 1..Len(src) : fromHexChar(Char(src, j)) < 0}
        good == IF bad = {} THEN pairs ELSE (Min(bad) - 1) \div 2
        bytes == [k \in 1..good |->
                     fromHexChar(Char(src, 2 * k - 1)) * 16 + fromHexChar(Char(src, 2 * k))]
    IN  IF bad # {} THEN [bytes |-> bytes, err |-> "encoding/hex: invalid byte: " \o Char(src, Min(bad))]
        ELSE IF Len(src) % 2 = 1 THEN [bytes |-> bytes, err |-> "encoding/hex: odd length hex string"]
        ELSE [bytes |-> bytes, err |-> ""]

\* A plausible slip: the upper-case table
EncodeToString_Upper(bytes) ==
    LET up == <<"0", "1", "2", "3", "4", "5", "6", "7", "8", "9", "A", "B", "C", "D", "E", "F">>
        F[k \in 0..Len(bytes)] ==
            IF k = 0 THEN ""
            ELSE F[k - 1] \o up[(bytes[k] \div 16) + 1] \o up[(bytes[k] % 16) + 1]
    IN  F[Len(bytes)]

\* hex.EncodeToString(bytes)
EncodeToString(bytes) ==
    LET F[k \in 0..Len(bytes)] ==
            IF k = 0 THEN ""
            ELSE F[k - 1] \o hextable[(bytes[k] \div 16) + 1] \o hextable[(bytes[k] % 16) + 1]
    IN  F[Len(bytes)]

\* fmt's %q of a text without quotes, backslashes or control characters
Quote(s) == "\"" \o s \o "\""

\* ParseID(s): [id, err], err = "" for nil
ParseID(s) ==
    IF Len(s) # EncodedLen(idSize)
    THEN [id |-> ZeroID, err |-> "invalid length for ID: " \o Quote(s)]
    ELSE LET d == hexDecode(s)
         IN  IF d.err # "" THEN [id |-> ZeroID, err |-> "invalid ID: " \o d.err]
             ELSE [id |-> d.bytes, err |-> ""]

\* id.String()
ID_String(i) == EncodeToString(i)

\* id.MarshalJSON(): the text between two quotes
ID_MarshalJSON(i) == "\"" \o EncodeToString(i) \o "\""

\* id.UnmarshalJSON(b) on the receiver i: [id, err]; hex.Decode writes the
\* bytes it decoded before an invalid digit into the receiver
ID_UnmarshalJSON(i, b) ==
    IF Len(b) # 2 + EncodedLen(idSize)
    THEN [id |-> i, err |-> "invalid length for ID: " \o Quote(b)]
    ELSE IF Char(b, 1) # "\""
    THEN [id |-> i, err |-> "invalid start of string: '" \o Char(b, 1) \o "'"]
    ELSE LET d == hexDecode(SubSeq(b, 2, Len(b) - 1))
         IN  [id |-> [k \in 1..idSize |-> IF k <= Len(d.bytes) THEN d.bytes[k] ELSE i[k]],
              err |-> IF d.err # "" THEN "invalid ID: " \o d.err ELSE ""]

\* at most this many chosen blocks of eight characters start a text
FreeBlocks == 2

\* blocks of eight characters: lower-case digits, upper-case digits, a block
\* with a letter that is no digit
Blocks == {"01234567", "89abcdef", "89ABCDEF", "ffffffff", "0123456g"}

\* the texts given to ParseID: the chosen blocks alone; the blocks filled up
\* to the encoded length; that text one character shorter and one longer
IdTexts ==
    UNION { LET head == Concat(bs)
                full == head \o Repeat("0f", idSize - 4 * Len(bs))
            IN  {head, full, SubSeq(full, 1, Len(full) - 1), full \o "0"} :
            bs \in SeqsUpTo(Blocks, FreeBlocks) }

NoID == [id |-> ZeroID, err |-> "(running)"]

InitParseIDVars ==
    /\ idText \in IdTexts
    /\ parsedID = NoID
    /\ idString = ""
    /\ idJSON = ""
    /\ unmarshaledID = NoID
    /\ pcParseID = "call"

IdleParseIDVars ==
    /\ idText = ""
    /\ parsedID = NoID
    /\ idString = ""
    /\ idJSON = ""
    /\ unmarshaledID = NoID
    /\ pcParseID = "idle"

\* `id, err := ParseID(s)`
ParseID_call ==
    /\ pcParseID = "call"
    /\ parsedID' = ParseID(idText)
    /\ pcParseID' = "parsed"
    /\ UNCHANGED <<idText, idString, idJSON, unmarshaledID>>
    /\ UNCHANGED <<summaryVars, stdErrVars, argsVars, idVars, onceVars, opsVars, repoVars>>

\* `id.String()` on the value ParseID returned
ID_String_call ==
    /\ pcParseID = "parsed"
    /\ idString' = ID_String(parsedID.id)
    /\ pcParseID' = "string"
    /\ UNCHANGED <<idText, parsedID, idJSON, unmarshaledID>>
    /\ UNCHANGED <<summaryVars, stdErrVars, argsVars, idVars, onceVars, opsVars, repoVars>>

\* `json.Marshal(id)`
ID_MarshalJSON_call ==
    /\ pcParseID = "string"
    /\ idJSON' = ID_MarshalJSON(parsedID.id)
    /\ pcParseID' = "marshaled"
    /\ UNCHANGED <<idText, parsedID, idString, unmarshaledID>>
    /\ UNCHANGED <<summaryVars, stdErrVars, argsVars, idVars, onceVars, opsVars, repoVars>>

\* `var id2 ID; json.Unmarshal(data, &id2)`
ID_UnmarshalJSON_call ==
    /\ pcParseID = "marshaled"
    /\ unmarshaledID' = ID_UnmarshalJSON(ZeroID, idJSON)
    /\ pcParseID' = "done"
    /\ UNCHANGED <<idText, parsedID, idString, idJSON>>
    /\ UNCHANGED <<summaryVars, stdErrVars, argsVars, idVars, onceVars, opsVars, repoVars>>

----------------------------------------------------------------------------
(* A caller's sequence of Open, Init and Validate calls (src/repo.go:19-65, *)
(* 257-296) against the wrapped tool.  The tool is outside the repository;  *)
(* it is modelled by what the integration tests and the table of           *)
(* parseStdErr say it does: init creates a repository where there is none, *)
(* refuses where there is one, and a listing needs the repository and its  *)
(* password.                                                               *)

\* at most this many calls in a sequence
MaxOps == 3

Locations == {"", "/repo/a", "/repo/b"}
Passwords == {"", "test-password-123", "other"}

NoHandle == [nil |-> TRUE, path |-> "", password |-> ""]

\* `&Repository{path: path, password: password}`
Repository(p, pw) == [nil |-> FALSE, path |-> p, password |-> pw]

NoRepo == [exists |-> FALSE, password |-> ""]

\* restic, started with the arguments av and the environment e, on the
\* stores st: [ok, stdErr, stores]
restic(av, e, st) ==
    LET loc == e.RESTIC_REPOSITORY
        pw == e.RESTIC_PASSWORD
        fatal(text) == [ok |-> FALSE, stdErr |-> "Fatal: " \o text \o "\n", stores |-> st]
    IN  IF loc = "" THEN fatal("Please specify repository location (-r or --repository-file)")
        ELSE IF "init" \in {av[k] : k \in 1..Len(av)}
        THEN IF pw = "" THEN fatal("an empty password is not a password")
             ELSE IF st[loc].exists
             THEN fatal("create repository at " \o loc \o " failed: config file already exists")
             ELSE [ok |-> TRUE, stdErr |-> "",
                   stores |-> [st EXCEPT ![loc] = [exists |-> TRUE, password |-> pw]]]
        ELSE IF ~st[loc].exists
        THEN fatal("unable to open config file: stat " \o loc
                   \o "/config: no such file or directory\nIs there a repository at the following location?\n"
                   \o loc)
        ELSE IF pw = "" THEN fatal("an empty password is not a password")
        ELSE IF pw # st[loc].password THEN fatal("wrong password or no key found")
        ELSE [ok |-> TRUE, stdErr |-> "", stores |-> st]

\* A plausible slip: the handle returned together with the error
init_return_KeepHandle(r, e) == [handle |-> r, err |-> e]

\* Repository.init after r.command returned the error e (repo.go:60-64)
init_return(r, e) ==
    IF e # ErrNil THEN [handle |-> NoHandle, err |-> e] ELSE [handle |-> r, err |-> ErrNil]

\* Validate after r.command returned the error e (repo.go:40-44)
Validate_return(e) ==
    [handle |-> NoHandle,
     err |-> IF e # ErrNil THEN Wrap("repository validation failed: ", e, "") ELSE ErrNil]

NoCall == [op |-> "", r |-> NoHandle, args |-> <<>>, n |-> 0]

InitRepoVars ==
    /\ stores = [l \in Locations |-> NoRepo]
    /\ handle = NoHandle
    /\ repoCall = NoCall
    /\ pcRepo = "idle"
    /\ toolRuns = <<>>
    /\ toolExit = [ok |-> TRUE, stdErr |-> ""]
    /\ repoRet = [handle |-> NoHandle, err |-> NoError]

IdleRepoVars ==
    /\ stores = [l \in Locations |-> NoRepo]
    /\ handle = NoHandle
    /\ repoCall = NoCall
    /\ pcRepo = "off"
    /\ toolRuns = <<>>
    /\ toolExit = [ok |-> TRUE, stdErr |-> ""]
    /\ repoRet = [handle |-> NoHandle, err |-> NoError]

\* the readiness check was made earlier in the process and found the tool
ReadyOnceVars ==
    /\ env = [bin |-> TRUE, runErr |-> FALSE,
              out |-> "restic 0.16.0 compiled with go1.21.0 on linux/amd64\n"]
    /\ resticCheckOnce = [done |-> 1, m |-> 0]
    /\ resticCheckErr = checkBody(env)
    /\ bodyRuns = 1
    /\ pcCaller = [c \in Callers |-> "idle"]
    /\ callerRet = [c \in Callers |-> NoError]

\* Open(path, password) (repo.go:30-35): the handle, no error, nothing run
Open ==
    /\ pcRepo = "idle"
    /\ repoCall.n < MaxOps
    /\ \E p \in Locations, pw \in Passwords :
           /\ handle' = Repository(p, pw)
           /\ repoRet' = [handle |-> Repository(p, pw), err |-> ErrNil]
           /\ repoCall' = [op |-> "Open", r |-> Repository(p, pw), args |-> <<>>,
                           n |-> repoCall.n + 1]
    /\ UNCHANGED <<stores, pcRepo, toolRuns, toolExit>>
    /\ UNCHANGED <<summaryVars, stdErrVars, argsVars, idVars, onceVars, opsVars, parseIDVars>>

\* Init(ctx, path, password) (repo.go:49-59), up to r.command
Init_call ==
    /\ pcRepo = "idle"
    /\ repoCall.n < MaxOps
    /\ \E p \in Locations, pw \in Passwords :
           repoCall' = [op |-> "Init", r |-> Repository(p, pw), args |-> Init_entry.args,
                        n |-> repoCall.n + 1]
    /\ pcRepo' = "command"
    /\ repoRet' = [handle |-> NoHandle, err |-> NoError]
    /\ UNCHANGED <<stores, handle, toolRuns, toolExit>>
    /\ UNCHANGED <<summaryVars, stdErrVars, argsVars, idVars, onceVars, opsVars, parseIDVars>>

\* r.Validate(ctx) on the handle the caller holds (repo.go:39-40), up to
\* r.command
Validate_call ==
    /\ pcRepo = "idle"
    /\ repoCall.n < MaxOps
    /\ ~handle.nil
    /\ repoCall' = [op |-> "Validate", r |-> handle, args |-> Validate_entry.args,
                    n |-> repoCall.n + 1]
    /\ pcRepo' = "command"
    /\ repoRet' = [handle |-> NoHandle, err |-> NoError]
    /\ UNCHANGED <<stores, handle, toolRuns, toolExit>>
    /\ UNCHANGED <<summaryVars, stdErrVars, argsVars, idVars, onceVars, opsVars, parseIDVars>>

\* what a call returns to the caller when command returned e
call_return(c, e) == IF c.op = "Init" THEN init_return(c.r, e) ELSE Validate_return(e)

\* command (repo.go:257-291): the readiness check on the fast path of the
\* Once, then the environment from the receiver and the subprocess started
command_env ==
    /\ pcRepo = "command"
    /\ resticCheckOnce.done = 1
    /\ IF resticCheckErr # ErrNil
       THEN /\ repoRet' = call_return(repoCall, Wrap("restic validation failed: ",
                                                     resticCheckErr, ""))
            /\ pcRepo' = "idle"
            /\ UNCHANGED toolRuns
       ELSE /\ toolRuns' = Append(toolRuns,
                                  [argv |-> <<resticBin>> \o repoCall.args,
                                   env |-> [RESTIC_PASSWORD |-> repoCall.r.password,
                                            RESTIC_REPOSITORY |-> repoCall.r.path],
                                   exit |-> "running"])
            /\ pcRepo' = "run"
            /\ UNCHANGED repoRet
    /\ UNCHANGED <<stores, handle, repoCall, toolExit>>
    /\ UNCHANGED <<summaryVars, stdErrVars, argsVars, idVars, onceVars, opsVars, parseIDVars>>

\* the subprocess runs and exits
restic_exit ==
    /\ pcRepo = "run"
    /\ LET run == toolRuns[Len(toolRuns)]
           res == restic(run.argv, run.env, stores)
       IN  /\ stores' = res.stores
           /\ toolExit' = [ok |-> res.ok, stdErr |-> res.stdErr]
           /\ toolRuns' = [toolRuns EXCEPT ![Len(toolRuns)].exit =
                               IF res.ok THEN "exit 0" ELSE "failed"]
    /\ pcRepo' = "wait"
    /\ UNCHANGED <<handle, repoCall, repoRet>>
    /\ UNCHANGED <<summaryVars, stdErrVars, argsVars, idVars, onceVars, opsVars, parseIDVars>>

\* cmd.Run returned (repo.go:291-295) and the operation returns (60-64,
\* 41-44); the caller keeps the handle Init returned
command_return ==
    /\ pcRepo = "wait"
    /\ LET e == IF toolExit.ok THEN ErrNil ELSE parseStdErr(toolExit.stdErr)
           ret == call_return(repoCall, e)
       IN  /\ repoRet' = ret
           /\ handle' = IF ret.handle.nil THEN handle ELSE ret.handle
    /\ pcRepo' = "idle"
    /\ UNCHANGED <<stores, repoCall, toolRuns, toolExit>>
    /\ UNCHANGED <<summaryVars, stdErrVars, argsVars, idVars, onceVars, opsVars, parseIDVars>>

----------------------------------------------------------------------------
(* Specifications: one per component, the other components idle. *)

InitSummary == InitSummaryVars /\ IdleStdErrVars /\ IdleArgsVars /\ IdleIDVars
               /\ IdleOnceVars /\ IdleOpsVars /\ IdleParseIDVars /\ IdleRepoVars
NextSummary == getSummaryScan \/ getSummaryReturn
SpecSummary == InitSummary /\ [][NextSummary]_vars

InitStdErr == IdleSummaryVars /\ InitStdErrVars /\ IdleArgsVars /\ IdleIDVars
              /\ IdleOnceVars /\ IdleOpsVars /\ IdleParseIDVars /\ IdleRepoVars
NextStdErr == ParseStdErr
SpecStdErr == InitStdErr /\ [][NextStdErr]_vars

InitArgs == IdleSummaryVars /\ IdleStdErrVars /\ InitArgsVars /\ IdleIDVars
            /\ IdleOnceVars /\ IdleOpsVars /\ IdleParseIDVars /\ IdleRepoVars
NextArgs == Apply \/ Compile
SpecArgs == InitArgs /\ [][NextArgs]_vars

InitID == IdleSummaryVars /\ IdleStdErrVars /\ IdleArgsVars /\ InitIDVars
          /\ IdleOnceVars /\ IdleOpsVars /\ IdleParseIDVars /\ IdleRepoVars
NextID == IsSnapshotID
SpecID == InitID /\ [][NextID]_vars

InitOnce == IdleSummaryVars /\ IdleStdErrVars /\ IdleArgsVars /\ IdleIDVars
            /\ InitOnceVars /\ IdleOpsVars /\ IdleParseIDVars /\ IdleRepoVars
NextOnce == (\E c \in Callers : CallCheck(c)) \/ checkResticVersion
SpecOnce == InitOnce /\ [][NextOnce]_vars

InitOps == IdleSummaryVars /\ IdleStdErrVars /\ IdleArgsVars /\ IdleIDVars
           /\ InitOpsOnceVars /\ InitOpsVars /\ IdleParseIDVars /\ IdleRepoVars
NextOps ==
    \/ Repository_init \/ Repository_Validate \/ Repository_Backup \/ Repository_Snapshots
    \/ Repository_SnapshotById \/ Repository_Restore \/ Repository_Forget
    \/ Repository_Unlock
    \/ command_check \/ checkResticVersion \/ command_checked \/ command_start
    \/ subprocess_write \/ context_done \/ command_wait
    \/ getSummaryScan \/ getSummaryReturn \/ operation_return
SpecOps == InitOps /\ [][NextOps]_vars

InitParseID == IdleSummaryVars /\ IdleStdErrVars /\ IdleArgsVars /\ IdleIDVars
               /\ IdleOnceVars /\ IdleOpsVars /\ InitParseIDVars /\ IdleRepoVars
NextParseID == ParseID_call \/ ID_String_call \/ ID_MarshalJSON_call \/ ID_UnmarshalJSON_call
SpecParseID == InitParseID /\ [][NextParseID]_vars

InitRepo == IdleSummaryVars /\ IdleStdErrVars /\ IdleArgsVars /\ IdleIDVars
            /\ ReadyOnceVars /\ IdleOpsVars /\ IdleParseIDVars /\ InitRepoVars
NextRepo == Open \/ Init_call \/ Validate_call \/ command_env \/ restic_exit \/ command_return
SpecRepo == InitRepo /\ [][NextRepo]_vars

Init == InitSummary \/ InitStdErr \/ InitArgs \/ InitID \/ InitOnce \/ InitOps
        \/ InitParseID \/ InitRepo
Next == NextSummary \/ NextStdErr \/ NextArgs \/ NextID \/ NextOnce \/ NextOps
        \/ NextParseID \/ NextRepo
Spec == Init /\ [][Next]_vars

----------------------------------------------------------------------------
(* Properties of getSummary, checked under SpecSummary. *)

\* The lines of a text as bufio.ScanLines cuts them, whatever their length
RECURSIVE LinesFrom(_, _)
LinesFrom(s, from) ==
    IF from > Len(s) THEN <<>>
    ELSE LET t == ScanLines(s, from) IN <<dropCR(t.raw)>> \o LinesFrom(s, t.next)

OutputLines == LinesFrom(output, 1)

\* the lines that parse as JSON with message_type "summary"
SummaryLines == {i \in 1..Len(OutputLines) : isSummaryMsg(OutputLines[i])}
\* the lines that contain the tags-field marker
TagsLines == {i \in 1..Len(OutputLines) : Contains(OutputLines[i], "\"tags\":")}
\* the lines the scanner's buffer cannot hold
LongLines == {i \in 1..Len(OutputLines) : ByteLen(OutputLines[i]) >= MaxScanTokenSize}

Max(S) == CHOOSE x \in S : \A y \in S : x >= y

Returned(line) == [data |-> line, nil |-> FALSE, err |-> ""]

C2_LastTagsLine_AnyOutput ==
    (pcSummary = "done" /\ SummaryLines = {} /\ TagsLines # {}) =>
        sumRet = Returned(OutputLines[Max(TagsLines)])

\* C2 as amended: when no line is a summary line and no line exceeds the
\* scanner's token limit, getSummary returns the last line that contains the
\* tags marker, verbatim and with no error.
C2_LastTagsLine ==
    (pcSummary = "done" /\ SummaryLines = {} /\ TagsLines # {} /\ LongLines = {}) =>
        sumRet = Returned(OutputLines[Max(TagsLines)])

\* Two different tags lines and no summary line: the later one is returned
C2_Witness ==
    /\ pcSummary = "done"
    /\ SummaryLines = {} /\ LongLines = {}
    /\ \E i, j \in TagsLines : i < j /\ OutputLines[i] # OutputLines[j]
    /\ sumRet = Returned(OutputLines[Max(TagsLines)])

NoSummaryFound == [data |-> "", nil |-> TRUE, err |-> "no summary found in output"]

\* C3 as stated: getSummary fails with "no summary found", returning no
\* record, exactly when the output has neither a summary line nor a tags line.
C3_NoSummaryFound_AnyOutput ==
    pcSummary = "done" =>
        (sumRet = NoSummaryFound <=> (SummaryLines = {} /\ TagsLines = {}))

\* C3 as amended: getSummary fails with "no summary found", returning no
\* record, exactly when the output has neither a summary line nor a tags line
\* nor a line that exceeds the scanner's token limit.
C3_NoSummaryFound ==
    pcSummary = "done" =>
        (sumRet = NoSummaryFound
            <=> (SummaryLines = {} /\ TagsLines = {} /\ LongLines = {}))

\* A lone status line: no summary found
C3_Witness ==
    /\ pcSummary = "done"
    /\ Len(OutputLines) = 1 /\ OutputLines[1] # ""
    /\ scanned = 1
    /\ sumRet = NoSummaryFound

ReadFailed ==
    [data |-> "", nil |-> TRUE, err |-> "failed to read output: bufio.Scanner: token too long"]

\* C29: getSummary never returns a record together with an error; when a
\* line exceeds the scanner's token limit and no summary line stands before
\* it, the result is the "failed to read output" error, even if a tags line
\* was recorded before; a summary line before the over-long line is returned
\* with no error.
C29_ScannerErrorFirst ==
    pcSummary = "done" =>
        /\ ~(~sumRet.nil /\ sumRet.err # "")
        /\ sumRet.err # "" => sumRet.data = ""
        /\ (LongLines # {} /\ \A i \in SummaryLines : i >= Min(LongLines)) =>
               sumRet = ReadFailed
        /\ (LongLines # {} /\ \E i \in SummaryLines : i < Min(LongLines)) =>
               sumRet = Returned(OutputLines[Min(SummaryLines)])

\* A tags line, then an over-long line: the read failure is returned
C29_Witness ==
    /\ pcSummary = "done"
    /\ SummaryLines = {} /\ 1 \in TagsLines /\ 1 \notin LongLines /\ 2 \in LongLines
    /\ sumRet = ReadFailed

----------------------------------------------------------------------------
(* Properties of parseStdErr, checked under SpecStdErr. *)

\* The classifier's table, row by row in its documented order
ErrorTable ==
    << [subs |-> {"config file already exists"}, err |-> ErrRepoExists],
       [subs |-> {"wrong password", "invalid password"}, err |-> ErrInvalidPassword],
       [subs |-> {"Is there a repository at the following location?"},
        err |-> ErrRepoNotFound],
       [subs |-> {"unable to create lock in backend", "repository is already locked"},
        err |-> ErrRepoLocked],
       [subs |-> {"returned error, retrying after"}, err |-> ErrInvalidID] >>

\* the rows one of whose substrings occurs in the text, letter case respected
MatchingRows ==
    {k \in 1..Len(ErrorTable) : \E sub \in ErrorTable[k].subs : Contains(stdErr, sub)}

\* the text is a table entry with the case of some letters changed
CaseVariant ==
    \E k \in 1..Len(ErrorTable) : \E sub \in ErrorTable[k].subs :
        stdErr # sub /\ ToLower(stdErr) = ToLower(sub)

HasSuffix(s, suffix) ==
    Len(s) >= Len(suffix) /\ SubSeq(s, Len(s) - Len(suffix) + 1, Len(s)) = suffix

\* C4: the result is the error of the earliest table row one of whose
\* substrings occurs in the text, and a text that differs from a table entry
\* only in letter case is given none of the table's errors.
C4_FirstRowWins ==
    pcStdErr = "done" =>
        /\ MatchingRows # {} => errRet = ErrorTable[Min(MatchingRows)].err
        /\ CaseVariant => errRet \notin Sentinels

\* The text holds the substrings of two rows, the later row's first
C4_Witness ==
    /\ pcStdErr = "done"
    /\ stdErr = "repository is already locked" \o "wrong password"
    /\ MatchingRows = {2, 4}
    /\ errRet = ErrInvalidPassword

\* C5: a text with none of the table's substrings (the empty text too) gives
\* an error that is none of the sentinel errors and whose message ends with
\* the text, unchanged.
C5_GenericFailure ==
    (pcStdErr = "done" /\ MatchingRows = {}) =>
        /\ errRet \notin Sentinels
        /\ errRet.sentinel = ""
        /\ HasSuffix(errRet.msg, stdErr)
        /\ Len(errRet.msg) > Len(stdErr)

C5_Witness ==
    /\ pcStdErr = "done"
    /\ stdErr = "Fatal: " \o "exit status 1"
    /\ errRet = NewError("restic command failed: Fatal: exit status 1")

----------------------------------------------------------------------------
(* Properties of the argument compilers, checked under SpecArgs. *)

\* the values the append-setters of a field were called with, in call order
AppliedValues(field) ==
    LET F[i \in 0..Len(applied)] ==
            IF i = 0 THEN <<>>
            ELSE IF applied[i].field = field /\ applied[i].how = "append"
                 THEN F[i - 1] \o applied[i].arg
                 ELSE F[i - 1]
    IN  F[Len(applied)]

Calls(field) == {i \in 1..Len(applied) : applied[i].field = field}

\* the value the last set-call of a field was given, zero when never called
LastApplied(field, zero) ==
    IF Calls(field) = {} THEN zero ELSE applied[Max(Calls(field))].arg

Pairs(flag, field) == FlagPairs(flag, AppliedValues(field))

CountPair(flag, field) ==
    IF LastApplied(field, 0) > 0 THEN <<flag, ToString(LastApplied(field, 0))>> ELSE <<>>

HostPair == IF LastApplied("host", "") # "" THEN <<"--host", LastApplied("host", "")>> ELSE <<>>

\* C6: when a snapshot id is set, it is the first token, bare; the --host
\* pairs, the --path pairs, the --tag pairs follow, then the --keep-last pair
\* when N > 0, then --prune when set: whatever the order of the setters.
C6_ForgetOrder ==
    (pcArgs = "compiled" /\ family = "forget" /\ LastApplied("id", "") # "") =>
        /\ argv[1] = LastApplied("id", "")
        /\ argv = <<LastApplied("id", "")>>
                  \o Pairs("--host", "hosts") \o Pairs("--path", "paths")
                  \o Pairs("--tag", "tags")
                  \o CountPair("--keep-last", "keepLast")
                  \o (IF Calls("prune") # {} THEN <<"--prune">> ELSE <<>>)

\* prune applied first, the id last, a tag in between
C6_Witness ==
    /\ pcArgs = "compiled" /\ family = "forget"
    /\ Len(applied) = 3
    /\ applied[1].field = "prune" /\ applied[2].field = "tags" /\ applied[3].field = "id"
    /\ argv = <<"latest", "--tag", "a", "--prune">>

\* C7: the vector of a backup, filter or restore record is the documented
\* sequence of groups, each group holding the values of its kind in the
\* order they were applied, however the setters of different kinds were
\* interleaved.
C7_GroupOrder ==
    pcArgs = "compiled" =>
        /\ family = "backup" =>
             argv = HostPair \o Pairs("--tag", "tags") \o Pairs("--exclude", "exclude")
                    \o Pairs("--include", "include")
        /\ family = "filter" =>
             argv = Pairs("--host", "hosts") \o Pairs("--path", "paths")
                    \o Pairs("--tag", "tags") \o CountPair("--latest", "latest")
        /\ family = "restore" =>
             argv = Pairs("--host", "hosts") \o Pairs("--path", "paths")
                    \o Pairs("--tag", "tags") \o Pairs("--exclude", "exclude")
                    \o Pairs("--include", "include")

\* includes applied first, then tags in two calls
C7_Witness ==
    /\ pcArgs = "compiled" /\ family = "backup"
    /\ Len(applied) = 3
    /\ applied[1].field = "include" /\ applied[2].field = "tags" /\ applied[3].field = "tags"
    /\ applied[2].arg # applied[3].arg
    /\ argv = FlagPairs("--tag", applied[2].arg \o applied[3].arg)
              \o FlagPairs("--include", applied[1].arg)

ValueFlags == {"--host", "--path", "--tag", "--exclude", "--include", "--latest", "--keep-last"}

\* C8: after the bare snapshot id (forget, when set) and before --prune
\* (forget, when set) the vector is a sequence of pairs, each a
\* value-requiring flag followed by one value token, whatever the values are.
C8_BalancedFlags ==
    pcArgs = "compiled" =>
        LET isForget == family \in {"forget", "forgetPkg"}
            hasId == isForget /\ LastApplied("id", "") # ""
            hasPrune == isForget /\ Calls("prune") # {}
            lo == IF hasId THEN 2 ELSE 1
            hi == Len(argv) - (IF hasPrune THEN 1 ELSE 0)
        IN  /\ hi >= lo - 1
            /\ hasId => argv[1] = LastApplied("id", "")
            /\ hasPrune => argv[Len(argv)] = "--prune"
            /\ (hi - lo + 1) % 2 = 0
            /\ \A k \in lo..hi : (k - lo) % 2 = 0 => argv[k] \in ValueFlags

\* an id and values that look like flags, an empty value among them
C8_Witness ==
    /\ pcArgs = "compiled" /\ family = "forget"
    /\ argv = <<"--prune", "--tag", "", "--tag", "--tag", "--prune">>

\* C9: every backup compiler emits each include pattern as an --include pair,
\* in caller order, after the --exclude pairs.
C9_IncludesEmitted ==
    (pcArgs = "compiled" /\ family \in {"backup", "backupPkg"}) =>
        LET tail == Pairs("--exclude", "exclude") \o Pairs("--include", "include")
        IN  /\ Len(argv) >= Len(tail)
            /\ SubSeq(argv, Len(argv) - Len(tail) + 1, Len(argv)) = tail

Elements(s) == {s[k] : k \in 1..Len(s)}

\* p occurs in s as a run of consecutive elements
Within(p, s) == \E k \in 0..(Len(s) - Len(p)) : SubSeq(s, k + 1, k + Len(p)) = p

ListFlag ==
    [hosts |-> "--host", paths |-> "--path", tags |-> "--tag", exclude |-> "--exclude",
     include |-> "--include"]

\* the scalar options: the family's field, what is compiled for its last value
ScalarCompiled(field) ==
    CASE field = "host" -> HostPair
      [] field = "id" -> IF LastApplied("id", "") # "" THEN <<LastApplied("id", "")>> ELSE <<>>
      [] field = "latest" -> CountPair("--latest", "latest")
      [] field = "keepLast" -> CountPair("--keep-last", "keepLast")

ScalarFlags == [host |-> "--host", latest |-> "--latest", keepLast |-> "--keep-last"]

\* C30: in every option record the values given to a list-valued setter in
\* several applications are all kept, in application order, and all
\* compiled; of a scalar option the last value is kept and compiled once, or
\* not at all when it is empty or zero; and compiling the record again gives
\* the same vector.
C30_OptionAccumulation ==
    pcArgs = "compiled" =>
        /\ \A st \in Setters(family) :
               st.how = "append" =>
                   /\ opts[st.field] = AppliedValues(st.field)
                   /\ Within(Pairs(ListFlag[st.field], st.field), argv)
        /\ \A st \in Setters(family) :
               (st.how = "set" /\ st.field \in {"host", "id", "latest", "keepLast"}) =>
                   /\ opts[st.field] =
                          LastApplied(st.field, IF st.field \in {"host", "id"} THEN "" ELSE 0)
                   /\ Within(ScalarCompiled(st.field), argv)
                   /\ (ScalarCompiled(st.field) = <<>> /\ st.field # "id") =>
                          ScalarFlags[st.field] \notin Elements(argv)
        /\ Args(family, opts) = argv

----------------------------------------------------------------------------
(* Properties of isSnapshotID, checked under SpecID. *)

IsLowerHex(p) == \A i \in 1..Len(p) : Contains("0123456789abcdef", Char(p, i))

\* P: the literal latest, or 8 or 64 characters of [0-9a-f]
IsReference(p) == p = "latest" \/ (Len(p) \in {8, 64} /\ IsLowerHex(p))

\* P, or P:S with S any text
IsReferenceWithPath(s) ==
    \E n \in 0..Len(s) :
        /\ IsReference(SubSeq(s, 1, n))
        /\ n = Len(s) \/ Char(s, n + 1) = ":"

\* C10: isSnapshotID is true exactly for P and P:S, S an arbitrary sub-path.
C10_AcceptsExactlyReferences ==
    pcID = "done" => (idRet <=> IsReferenceWithPath(id))

----------------------------------------------------------------------------
(* Properties of the operations, checked under SpecOps. *)

\* the subprocesses of the call other than the readiness check's
OperationRuns == {k \in 1..Len(launched) : launched[k].argv # <<resticBin, "version">>}

\* C11: Restore with a non-empty target fails with an error that is
\* ErrInvalidID for every identifier isSnapshotID rejects, the empty one
\* included, and starts no subprocess.
C11_RejectedIdIsInvalidID ==
    (pcOp = "done" /\ op = "Restore" /\ target # "" /\ ~isSnapshotID(snapshotID)) =>
        /\ ErrorsIs(opRet.err, ErrInvalidID)
        /\ launched = <<>>

\* the calls the operation's own validation rejects
InvalidCall ==
    \/ op = "Backup" /\ (path = "" \/ StatErr(path, dirs) = "no such file or directory")
    \/ op = "Restore" /\ target = ""
    \/ op = "Forget" /\ options = <<>>

\* C12: in a call of Backup with an empty or non-existent source path, of
\* Restore with an empty target, of Forget with no options, no subprocess is
\* ever started, the readiness check is not entered, and the call returns an
\* error and no result.
C12_ValidationFirst ==
    InvalidCall =>
        /\ launched = <<>>
        /\ bodyRuns = 0 /\ pcCaller[1] = "idle"
        /\ pcOp \in {"call", "done"}
        /\ pcOp = "done" => (opRet.err # ErrNil /\ opRet.result = "nil")

C12_Witness ==
    /\ pcOp = "done" /\ op = "Backup" /\ path = "/missing"
    /\ env.bin /\ ctx = "live"
    /\ opRet = Returns("nil", NewError("stat /missing: no such file or directory"))
    /\ launched = <<>>

\* C13: whenever the options leave the forget record with nothing set (its
\* compiled argument list is empty), Forget fails with the usage error and the
\* tool is never started as a bare forget.
C13_NoBareForget ==
    (op = "Forget" /\ forgetOptions_args(ApplyAll(options)) = <<>>) =>
        /\ \A k \in 1..Len(launched) : launched[k].argv # <<resticBin, "--json", "forget">>
        /\ pcOp = "done" => opRet = Returns("nil", NewError("at least one option must be set"))


\* the error text identifies the end of the context
MentionsCancellation(e) ==
    IF ctx = "canceled" THEN Contains(e.msg, "cancel")
    ELSE Contains(e.msg, "deadline") \/ Contains(e.msg, "cancel")

\* C14: a call whose context is cancelled or expired when the subprocess is
\* to be started, or whose subprocess is ended because the context was
\* cancelled while it ran, returns no result and an error whose text
\* mentions "cancel" or "deadline".
C14_CancellationReported ==
    (pcOp = "done" /\ ctx # "live" /\ cmdRun \in {"not started", "failed"}) =>
        /\ opRet.result \in {"nil", "none"}
        /\ opRet.err # ErrNil
        /\ MentionsCancellation(opRet.err)

\* the limits of TestLimitedBuffer
CaptureLimits == {5, 10, 100}

\* bytes written to a stream by the first k writes
RECURSIVE Cumulative(_, _)
Cumulative(stream, k) ==
    IF k = 0 THEN 0
    ELSE Cumulative(stream, k - 1) + (IF writes[k].stream = stream THEN writes[k].n ELSE 0)

\* C15: for every limit, the captured standard output and standard error
\* never exceed the limit, and a write that takes the cumulative size of its
\* stream over the limit is rejected with an overflow error.
C15_BoundedCapture ==
    \A limit \in CaptureLimits :
        /\ Len(cmdStdOut) <= limit
        /\ Len(cmdStdErr) <= limit
        /\ \A k \in 1..Len(writes) :
               writes[k].err # "" <=> Cumulative(writes[k].stream, k) > limit

----------------------------------------------------------------------------
(* Properties of the readiness check, checked under SpecOnce. *)

InBody == {c \in Callers : pcCaller[c] \in {"body", "store"}}

OnceState ==
    /\ bodyRuns <= 1
    /\ Cardinality(InBody) <= 1
    /\ \A c \in Callers :
           pcCaller[c] \in {"return", "done"} =>
               /\ bodyRuns = 1 /\ InBody = {}
               /\ resticCheckOnce.done = 1
               /\ resticCheckErr = checkBody(env)
    /\ \A c \in Callers : pcCaller[c] = "done" => callerRet[c] = resticCheckErr
    /\ \A c, d \in Callers :
           (pcCaller[c] = "done" /\ pcCaller[d] = "done") => callerRet[c] = callerRet[d]

OnceStep ==
    resticCheckOnce.done = 1 =>
        /\ resticCheckOnce'.done = 1
        /\ resticCheckErr' = resticCheckErr
        /\ bodyRuns' = bodyRuns

\* C17: with any number of concurrent callers of checkResticVersion in any
\* interleaving, the body of the check runs at most once, a caller returns
\* only after that run has finished, all callers get the same error value,
\* and once the check is done its cached error never changes.
C17_OneTimeCheck == [](OnceState) /\ [][OnceStep]_vars

C17_Witness ==
    /\ \A c \in Callers : pcCaller[c] = "done"
    /\ bodyRuns = 1
    /\ callerRet[1] = callerRet[2]
    /\ callerRet[1].msg = "restic version 0.15.2 is too old, minimum required version is 0.16.0"
    /\ Len(launched) = 1


----------------------------------------------------------------------------
(* Properties of what the operations return, checked under SpecOps. *)

\* C18: a finished call of Init, Backup, Snapshots, SnapshotById, Restore or
\* Forget has returned either a non-nil result or a non-nil error, not both
\* and not neither, whatever the subprocess did.
C18_ResultXorError ==
    (pcOp = "done" /\ op \in ResultOps) =>
        LET hasResult == opRet.result \in {"value", "empty"}
            hasError == opRet.err # ErrNil
        IN  (hasResult \/ hasError) /\ ~(hasResult /\ hasError)

HasPrefix(s, prefix) == Len(s) >= Len(prefix) /\ SubSeq(s, 1, Len(prefix)) = prefix

\* the subprocess exited with status 0 and its standard output has no summary
\* line or does not deserialize into the result of the operation
ParseFailure ==
    /\ pcOp = "done" /\ cmdRun = "exit 0"
    /\ \/ op \in SummaryOps /\ sumRet.err # ""
       \/ op \in {"Backup", "Restore"} /\ sumRet.err = "" /\ Unmarshal(sumRet.data).err # ""
       \/ op = "Forget" /\ sumRet.err = "" /\ UnmarshalList(sumRet.data).err # ""
       \/ op = "Snapshots" /\ UnmarshalList(cmdStdOut).err # ""

VersionBelowMinimum(e) ==
    /\ e.bin /\ ~e.runErr
    /\ Len(Fields(e.out)) >= 2
    /\ ~NewVersion(Fields(e.out)[2]).err
    /\ LessThan(NewVersion(Fields(e.out)[2]), NewVersion(minVersion))

\* C20: an operation that reached the readiness check fails with an error
\* that is ErrResticNotFound when the binary does not resolve and
\* ErrResticVersion when its version is below 0.16.0, and the check returns
\* nil exactly when the binary resolves and the version is not below it.
C20_TypedReadinessErrors ==
    (pcOp = "done" /\ pcCaller[1] = "done") =>
        /\ ~env.bin => ErrorsIs(opRet.err, ErrResticNotFound)
        /\ VersionBelowMinimum(env) => ErrorsIs(opRet.err, ErrResticVersion)
        /\ callerRet[1] = ErrNil <=> (env.bin /\ ~VersionBelowMinimum(env))


----------------------------------------------------------------------------
(* Properties of the invocations, checked under SpecOps. *)

\* C22: Snapshots runs with --no-lock, SnapshotById runs the invocation of
\* Snapshots with the identifier appended (so with --no-lock too), and after a
\* successful run SnapshotById returns a not-found error for an empty array
\* and the first element otherwise.
C22_NoLockListing ==
    /\ \A k \in OperationRuns :
           /\ op = "Snapshots" => "--no-lock" \in Elements(launched[k].argv)
           /\ op = "SnapshotById" =>
                  /\ "--no-lock" \in Elements(launched[k].argv)
                  /\ launched[k].argv =
                         <<resticBin>> \o Snapshots_entry(<<>>).args \o <<snapshotID>>
    /\ (pcOp = "done" /\ op = "SnapshotById" /\ cmdRun = "exit 0"
            /\ UnmarshalList(cmdStdOut).err = "") =>
           IF UnmarshalList(cmdStdOut).elems = 0
           THEN opRet = Returns("nil", NewError("no snapshot with id '" \o snapshotID \o "'"))
           ELSE opRet.err = ErrNil

\* the subcommands of the tool
Subcommands == {"init", "backup", "snapshots", "restore", "forget", "unlock"}

\* C23: the argument vector every operation hands to command starts with
\* the subcommand name and contains --json.
C23_InvocationShape ==
    cmdArgs # NoCommand =>
        /\ Head(cmdArgs.args) \in Subcommands
        /\ "--json" \in Elements(cmdArgs.args)


\* C26: the subprocess of Backup runs in the source path with "." as its
\* last argument, after the option arguments; the subprocess of every other
\* operation runs with no directory set.
C26_WorkingDirectory ==
    \A k \in OperationRuns :
        IF op = "Backup"
        THEN /\ launched[k].dir = path /\ path # ""
             /\ launched[k].argv =
                    <<resticBin, "backup", "--json">> \o backupOptions_args(ApplyAll(options))
                        \o <<".">>
        ELSE launched[k].dir = ""

C26_Witness ==
    /\ op = "Backup" /\ path = "/data" /\ pcOp = "running"
    /\ options # <<>> /\ backupOptions_args(ApplyAll(options)) # <<>>
    /\ launched[Len(launched)].dir = "/data"
    /\ launched[Len(launched)].argv[Len(launched[Len(launched)].argv)] = "."

\* the call got as far as cmd.Run
ReachedRun == pcOp \in {"running", "returned"} \/ (pcOp = "done" /\ cmdRun # "")

C28_RejectedRestoreNoEffect ==
    (op = "Restore" /\ pcOp = "done"
        /\ (target = "" \/ snapshotID = "" \/ ~isSnapshotID(snapshotID))) =>
            /\ opRet.err # ErrNil
            /\ launched = <<>>
            /\ dirs = ExistingDirs

----------------------------------------------------------------------------
(* Properties of the identifier type, checked under SpecParseID             *)

\* the hexadecimal digits of either case
AnyCaseHexDigits == HexDigits \cup {"A", "B", "C", "D", "E", "F"}

Chars(s) == {Char(s, j) : j \in 1..Len(s)}

\* C24: identifier round-trip.  For a text of 64 lower-case hexadecimal
\* digits ParseID returns no error and String() of the result is the text
\* again; for a text whose length is not 64, and for a text of length 64
\* with a character that is no hexadecimal digit, ParseID returns an error;
\* and UnmarshalJSON of MarshalJSON of an ID gives the same ID, without
\* error.
C24_IdentifierRoundTrip ==
    /\ pcParseID \in {"parsed", "string", "marshaled", "done"} =>
           /\ (Len(idText) = 64 /\ Chars(idText) \subseteq HexDigits) => parsedID.err = ""
           /\ Len(idText) # 64 => parsedID.err # ""
           /\ (Len(idText) = 64 /\ ~(Chars(idText) \subseteq AnyCaseHexDigits)) => parsedID.err # ""
    /\ (/\ pcParseID \in {"string", "marshaled", "done"}
        /\ Len(idText) = 64
        /\ Chars(idText) \subseteq HexDigits) => idString = idText
    /\ pcParseID = "done" => unmarshaledID = [id |-> parsedID.id, err |-> ""]

\* a text of 64 lower-case digits went through ParseID, String, MarshalJSON
\* and UnmarshalJSON and came back as the same, non-zero ID
C24_Witness ==
    /\ pcParseID = "done"
    /\ Len(idText) = 64
    /\ Chars(idText) \subseteq HexDigits
    /\ "a" \in Chars(idText)
    /\ parsedID.err = ""
    /\ parsedID.id # ZeroID
    /\ idString = idText
    /\ idJSON = "\"" \o idText \o "\""
    /\ unmarshaledID.id = parsedID.id

----------------------------------------------------------------------------
(* Properties of sequences of Open, Init and Validate, checked under       *)
(* SpecRepo                                                                *)

\* the call named o has returned to the caller
CallReturned(o) == pcRepo = "idle" /\ repoCall.n > 0 /\ repoCall.op = o

\* C21: handle input validation.  Open returns a handle with the location
\* and the credential given, no error, and runs nothing; a call on a handle
\* whose location is empty fails with an error that contains "repository
\* path is empty", one on a handle whose credential is empty with an error
\* that contains "repository password is empty"; and no call on a handle
\* starts the tool with an empty RESTIC_REPOSITORY or RESTIC_PASSWORD.
C21_HandleInputValidation ==
    /\ CallReturned("Open") => repoRet = [handle |-> repoCall.r, err |-> ErrNil]
    /\ \A k \in 1..Len(toolRuns) :
           toolRuns[k].argv = <<resticBin>> \o Validate_entry.args =>
               /\ toolRuns[k].env.RESTIC_REPOSITORY # ""
               /\ toolRuns[k].env.RESTIC_PASSWORD # ""
    /\ (CallReturned("Validate") /\ repoCall.r.path = "") =>
           Contains(repoRet.err.msg, "repository path is empty")
    /\ (CallReturned("Validate") /\ repoCall.r.path # "" /\ repoCall.r.password = "") =>
           Contains(repoRet.err.msg, "repository password is empty")

\* an earlier Init on the location loc succeeded: a run of `restic init`
\* before the last one, on loc, that exited with status 0
InitSucceededBefore(loc) ==
    \E k \in 1..(Len(toolRuns) - 1) :
        /\ toolRuns[k].argv = <<resticBin, "init">>
        /\ toolRuns[k].env.RESTIC_REPOSITORY = loc
        /\ toolRuns[k].exit = "exit 0"

\* the call that has returned is the Validate made on the handle the Init
\* just before it returned
ValidateAfterInit ==
    /\ CallReturned("Validate")
    /\ Len(toolRuns) >= 2
    /\ toolRuns[Len(toolRuns) - 1].argv = <<resticBin, "init">>
    /\ toolRuns[Len(toolRuns) - 1].exit = "exit 0"
    /\ toolRuns[Len(toolRuns) - 1].env = toolRuns[Len(toolRuns)].env

====
